---------------------------- MODULE Spec2Model ----------------------------
(* Sensor ingestion of sensorview: the TCP listeners of the camera, LIDAR  *)
(* and GPS sensors, their connection handlers (wire decoders), the         *)
(* unbounded crossbeam channels and the render ticks of the sensor         *)
(* windows that poll them.                                                 *)
EXTENDS Integers, Sequences, FiniteSets, TLC

(***************************************************************************)
(* Bounds of the environment (clients and operator).                       *)
(***************************************************************************)
\* connections a client opens to one listener
MaxConns == 2
\* chunks (whole or cut messages) the clients of one sensor write
MaxMsgs == 2
\* events the gamepad produces
MaxEvents == 2
\* connect attempts of the controller that are counted
MaxAttempts == 3

Sensors == {"camera", "lidar", "gps"}


(***************************************************************************)
(* Wire encodings.                                                         *)
(***************************************************************************)
\* byteorder: read_u32::<LittleEndian> of four bytes
U32LE(b) == b[1] + 256 * b[2] + 65536 * b[3] + 16777216 * b[4]

\* byteorder: read_f32::<LittleEndian>.  An f32 is identified by its bits, as
\* the integer of its 31 low bits with the sign of its sign bit (0.0 and
\* -0.0, which compare equal, are one value).
F32LE(b) ==
    LET mag == b[1] + 256 * b[2] + 65536 * b[3] + 16777216 * (b[4] % 128)
    IN  IF b[4] >= 128 THEN 0 - mag ELSE mag

\* what a client writes for a u32
LE4(n) == << n % 256, (n \div 256) % 256, (n \div 65536) % 256, (n \div 16777216) % 256 >>

\* what a client writes for an f32
F32Bytes(v) ==
    LET mag == IF v < 0 THEN 0 - v ELSE v
    IN  << mag % 256, (mag \div 256) % 256, (mag \div 65536) % 256,
           ((mag \div 16777216) % 128) + (IF v < 0 THEN 128 ELSE 0) >>

\* First marker byte of a JPEG payload accepted by the image decoder.  The
\* decoder is abstracted to a header <<JpegSOI, width, height, components>>
\* followed by the pixel bytes.
JpegSOI == 255

\* JPEGDecoder::new(bytes): Ok iff the header parses
JPEGDecoderNew(p) == Len(p) >= 4 /\ p[1] = JpegSOI /\ p[4] \in {1, 3}

\* decoder.dimensions()
Dimensions(p) == << p[2], p[3] >>

\* decoder.read_image(): Ok iff the scan data is complete
ReadImageOk(p) == Len(p) - 4 = p[2] * p[3] * p[4]

ReadImage(p) == SubSeq(p, 5, Len(p))

(***************************************************************************)
(* Messages the clients write.                                             *)
(***************************************************************************)
\* camera: u32 LE length, then the payload
CameraMsg(p) == LE4(Len(p)) \o p

\* lidar: u32 LE count, then count x (angle, distance)
RECURSIVE PairBytes(_)
PairBytes(scan) ==
    IF scan = << >> THEN << >>
    ELSE F32Bytes(Head(scan)[1]) \o F32Bytes(Head(scan)[2]) \o PairBytes(Tail(scan))

LidarMsg(scan) == LE4(Len(scan)) \o PairBytes(scan)

\* gps: latitude, then longitude
GpsMsg(lat, lon) == F32Bytes(lat) \o F32Bytes(lon)

JpegRgb == << JpegSOI, 1, 1, 3, 10, 20, 30 >>
JpegGray == << JpegSOI, 1, 1, 1, 40 >>
NotJpeg == << 7 >>

\* where a client may stop inside message m: inside its first field and
\* inside its last field
Cuts(m) == {n \in 1..(Len(m) - 1) : n = 2 \/ n = Len(m) - 2}

\* the scans the LIDAR clients write: none of K = 0 samples, and the K = 2
\* samples (0.0, 10.0), (1.5708, 5.0), every f32 by its bits
LidarScans == {<< >>, << <<0, 1092616192>>, <<1070141433, 1084227584>> >>}

\* the fixes the GPS clients write, as (latitude, longitude), every f32 by
\* its bits: (47.0, 8.0) and (47.03125, 8.046875)
GpsFixes == {<< 1111228416, 1090519040 >>, << 1111236608, 1090568192 >>}

Messages(s) ==
    CASE s = "camera" -> {CameraMsg(JpegRgb), CameraMsg(JpegGray), CameraMsg(NotJpeg)}
      [] s = "lidar" -> {LidarMsg(scan) : scan \in LidarScans}
      [] s = "gps" -> {GpsMsg(fix[1], fix[2]) : fix \in GpsFixes}

(***************************************************************************)
(* State.                                                                  *)
(***************************************************************************)
VARIABLES
    created,      \* sensors whose "Create Sensor Window" button was pressed
    video_format, \* VideoFormat chosen in the camera modal
    listener,     \* per sensor: position of the thread spawned by start()
    conns,        \* per sensor: the TCP connections, in order of arrival
    chan,         \* per sensor: contents of the unbounded channel
    display,      \* the display loop that renders every sensor window
    camWin,       \* CameraWindow fields
    lidWin,       \* LidarWindow fields
    gpsWin,       \* GpsWindow fields
    tile_requests, \* history: the requests sent to the tile service, as <<zoom, x, y>>
    quota,        \* per sensor: chunks its clients may still write
    decoded,      \* history: per sensor, the frames handed to sender.send
    consumed,     \* history: per sensor, the frames obtained by try_recv
    sentWhole,    \* history: per sensor, number of whole messages written
    faults,       \* history: the errors that happened, as <<kind, sensor>>
    controller,   \* the thread of Controller::start: position, locals, result
    remote,       \* the peer of the controller and the bytes written to it
    gilrs,        \* the event source of the gamepad
    sensor_data,  \* main.rs: the Arc<Mutex<SensorData>>, its slot and who holds its guard
    main_thread,  \* main.rs: the thread of main(): listener and handle_image_stream
    render_thread, \* main.rs: the thread of render()
    slot_log      \* history: the frames stored, taken, overwritten and shown, by number

vars == << created, video_format, listener, conns, chan, display, camWin, lidWin,
           gpsWin, tile_requests, quota, decoded, consumed, sentWhole, faults,
           controller, remote, gilrs, sensor_data, main_thread, render_thread, slot_log >>

ctrl_vars == << controller, remote, gilrs >>

slot_vars == << sensor_data, main_thread, render_thread, slot_log >>

\* A connection: the bytes that arrived and were not read yet, what the peer
\* did to its end, the handler's position, the handler's locals and result.
\* History: rx, all bytes the client wrote; pubs, the frames this handler
\* sent; cut, whether the client stopped inside a message.
NewConn ==
    [wire |-> << >>, peer |-> "open", st |-> "pending", size |-> 0,
     todo |-> 0, scan |-> << >>, angle |-> 0, lat |-> 0, result |-> "none",
     rx |-> << >>, pubs |-> << >>, cut |-> FALSE]

HandlerPcs == {"size", "payload", "count", "angle", "distance", "lat", "lon"}

\* connections of sensor s whose handler is running
Handlers(s) == {i \in DOMAIN conns[s] : conns[s][i].st \in HandlerPcs}

\* the receiver lives in the sensor window, which the display loop owns
ReceiverAlive == display = "running"

\* The controller thread: not started, or spawned by "Send Controller
\* State" and about to run Gilrs::new(); the peer does not accept yet.
InitController(started) ==
    /\ controller = [pc |-> IF started THEN "new" ELSE "absent", slept |-> 0,
                     attempts |-> 0, data |-> << >>, result |-> "none"]
    /\ remote = [state |-> "refusing", out |-> << >>, flushes |-> << >>, failed |-> FALSE]
    /\ gilrs = [left |-> IF started THEN MaxEvents ELSE 0, polled |-> << >>]

\* The state after the operator pressed "Create Sensor Window" for the
\* sensors in made, whose clients may write msgs chunks each.
InitSensors(made, msgs) ==
    /\ created = made
    /\ video_format \in {"MJPEG", "H264"}
    /\ listener = [s \in Sensors |-> IF s \in created THEN "bind" ELSE "absent"]
    /\ conns = [s \in Sensors |-> << >>]
    /\ chan = [s \in Sensors |-> << >>]
    /\ display = "running"
    /\ camWin = [texture_id |-> FALSE, window_width |-> 0, window_height |-> 0]
    /\ lidWin = [texture_id |-> FALSE, lidar_data |-> << >>]
    /\ gpsWin = [texture_id |-> FALSE, image_empty |-> TRUE, x_tile |-> 0, y_tile |-> 0,
                 query_lat |-> 0, query_lon |-> 0, lon_meters |-> 0, lat_meters |-> 0,
                 nw_lat |-> 0, nw_lon |-> 0, zoom |-> 0, points |-> << >>,
                 width |-> 0, height |-> 0]
    /\ tile_requests = << >>
    /\ quota = [s \in Sensors |-> IF s \in created THEN msgs ELSE 0]
    /\ decoded = [s \in Sensors |-> << >>]
    /\ consumed = [s \in Sensors |-> << >>]
    /\ sentWhole = [s \in Sensors |-> 0]
    /\ faults = {}

\* The single-slot program of main.rs: not running, or at the start of
\* main(), which has spawned the thread of render() and is about to bind;
\* the slot is empty (SensorData::new) and nobody holds the mutex.  None
\* stands for Option::None.
None == [none |-> TRUE]

InitSingleSlot(started) ==
    /\ sensor_data = [camera |-> None, guard |-> "none"]
    /\ main_thread = [pc |-> IF started THEN "bind" ELSE "absent", wire |-> << >>,
                      peer |-> "none", size |-> 0, raw |-> None, result |-> "none",
                      quota |-> IF started THEN MaxMsgs ELSE 0]
    /\ render_thread = [pc |-> IF started THEN "lock" ELSE "absent", camera |-> None,
                        cam_tex_id |-> FALSE, texture |-> None]
    /\ slot_log = [stored |-> << >>, taken |-> << >>, overwritten |-> {}, shown |-> << >>,
                   slot |-> 0, local |-> 0]

\* the sensors of InitSensors, no controller, and not the program of main.rs
InitWith(made, msgs) ==
    /\ InitSensors(made, msgs)
    /\ InitController(FALSE)
    /\ InitSingleSlot(FALSE)

\* one sensor window of any kind
Init == \E s \in Sensors : InitWith({s}, MaxMsgs)

(***************************************************************************)
(* Clients: connect, write whole or cut messages, close.                   *)
(***************************************************************************)
\* the listening socket exists while the thread of start() is in its loop
Listening(s) == listener[s] \in {"accepting", "handling"}

Connect(s) ==
    /\ Listening(s)
    /\ Len(conns[s]) < MaxConns
    /\ conns' = [conns EXCEPT ![s] = Append(@, NewConn)]
    /\ UNCHANGED << slot_vars, ctrl_vars, created, video_format, listener, chan, display, camWin, lidWin,
                    gpsWin, tile_requests, quota, decoded, consumed, sentWhole, faults >>

\* The client writes the first n bytes of message m; a client that stops
\* inside a message (n < Len(m)) has died and its end is closed.
ClientSend(s, i, m, n) ==
    /\ Listening(s)
    /\ quota[s] > 0
    /\ conns[s][i].peer = "open"
    /\ conns[s][i].st \in HandlerPcs \cup {"pending"}
    /\ conns' = [conns EXCEPT ![s][i] =
                   [@ EXCEPT !.wire = @ \o SubSeq(m, 1, n),
                             !.rx = @ \o SubSeq(m, 1, n),
                             !.peer = IF n < Len(m) THEN "eof" ELSE "open",
                             !.cut = n < Len(m)]]
    /\ quota' = [quota EXCEPT ![s] = @ - 1]
    /\ sentWhole' = [sentWhole EXCEPT ![s] = IF n = Len(m) THEN @ + 1 ELSE @]
    /\ UNCHANGED << slot_vars, ctrl_vars, created, video_format, listener, chan, display, camWin, lidWin,
                    gpsWin, tile_requests, decoded, consumed, faults >>

\* The client closes its end.
ClientClose(s, i) ==
    /\ conns[s][i].peer = "open"
    /\ conns[s][i].st \in HandlerPcs \cup {"pending"}
    /\ conns' = [conns EXCEPT ![s][i].peer = "eof"]
    /\ UNCHANGED << slot_vars, ctrl_vars, created, video_format, listener, chan, display, camWin, lidWin,
                    gpsWin, tile_requests, quota, decoded, consumed, sentWhole, faults >>

(***************************************************************************)
(* The listener thread: start().                                           *)
(***************************************************************************)
\* TcpListener::bind(&ip).unwrap()
start_bind(s) ==
    /\ listener[s] = "bind"
    /\ \E ok \in BOOLEAN :
         /\ listener' = [listener EXCEPT ![s] = IF ok THEN "accepting" ELSE "panicked"]
         /\ faults' = IF ok THEN faults ELSE faults \cup {<< "bind", s >>}
    /\ UNCHANGED << slot_vars, ctrl_vars, created, video_format, conns, chan, display, camWin, lidWin,
                    gpsWin, tile_requests, quota, decoded, consumed, sentWhole >>

\* (bug variant: every handler runs on a thread of its own)
AcceptReadySpawn(s) == listener[s] \in {"accepting", "handling"}

\* The thread is at listener.incoming(): the handler of the previous
\* connection, called inline in the loop body, has returned Ok.
AcceptReady(s) == listener[s] = "accepting"

Pending(s) == {i \in DOMAIN conns[s] : conns[s][i].st = "pending"}

NextPending(s) == CHOOSE i \in Pending(s) : \A j \in Pending(s) : i <= j

\* (bug variant: an H264 stream is read like an MJPEG stream)
HandlerEntryDecodeAll(s) ==
    CASE s = "camera" -> "size"
      [] s = "lidar" -> "count"
      [] s = "gps" -> "lat"

\* where the handler of a freshly accepted stream starts
HandlerEntry(s) ==
    CASE s = "camera" -> IF video_format = "MJPEG" THEN "size" ELSE "returned"
      [] s = "lidar" -> "count"
      [] s = "gps" -> "lat"

\* for stream in listener.incoming() { self.handle_..(stream?)?; }
start_accept(s) ==
    /\ AcceptReady(s)
    /\ Pending(s) # {}
    /\ LET i == NextPending(s)
           entry == HandlerEntry(s)
       IN  IF entry = "returned"
           THEN \* VideoFormat::H264 => Ok(()): the stream is dropped unread
                /\ conns' = [conns EXCEPT ![s][i] =
                               [@ EXCEPT !.st = "closed", !.result = "Ok", !.wire = << >>]]
                /\ UNCHANGED listener
           ELSE /\ conns' = [conns EXCEPT ![s][i].st = entry]
                /\ listener' = [listener EXCEPT ![s] = "handling"]
    /\ UNCHANGED << slot_vars, ctrl_vars, created, video_format, chan, display, camWin, lidWin,
                    gpsWin, tile_requests, quota, decoded, consumed, sentWhole, faults >>

(***************************************************************************)
(* Blocking reads of a TcpStream.                                          *)
(***************************************************************************)
\* read_exact of n bytes returns Ok
CanRead(c, n) == Len(c.wire) >= n

\* (bug variant: end of stream is only noticed when no byte has arrived)
ReadErrCleanEof(c, n) ==
    IF Len(c.wire) >= n THEN {}
    ELSE IF c.peer = "eof" THEN (IF Len(c.wire) = 0 THEN {"UnexpectedEof"} ELSE {})
    ELSE {"ConnectionReset"}

\* The errors read_exact of n bytes can return now: the stream ended before
\* n bytes arrived, or the connection breaks while the read waits for them.
ReadErr(c, n) ==
    IF Len(c.wire) >= n THEN {}
    ELSE IF c.peer = "eof" THEN {"UnexpectedEof"}
    ELSE {"ConnectionReset"}

Take(c, n) == SubSeq(c.wire, 1, n)

Drop(c, n) == SubSeq(c.wire, n + 1, Len(c.wire))

\* the handler returned Err(kind): the stream is dropped
Failed(c, kind) == [c EXCEPT !.st = "closed", !.result = kind, !.wire = << >>]

\* the handler panicked
Panicked(c) == [c EXCEPT !.st = "closed", !.result = "panic", !.wire = << >>]

\* What sender.send(frame) returning Err does to the handler of sensor s:
\* camera and lidar map it to an io::Error, gps unwraps it.
SendErr(s) == IF s = "gps" THEN "panic" ELSE "ConnectionAborted"

\* (bug variant: the handler also stores a fix it sent in the GPS window)
handler_window_shared(s, res, frame) ==
    /\ gpsWin' = IF s = "gps" /\ res = "sent"
                 THEN [gpsWin EXCEPT !.query_lat = frame.lat, !.query_lon = frame.lon]
                 ELSE gpsWin
    /\ UNCHANGED << camWin, lidWin, tile_requests >>

\* What a handler step does to the sensor windows: nothing.  Camera, Lidar
\* and Gps hold the sender only and are moved into the thread of start(); the
\* windows, with the receivers, stay with the display loop.
handler_window(s, res, frame) == UNCHANGED << camWin, lidWin, gpsWin, tile_requests >>

\* One step of the handler of connection i of sensor s, which leaves the
\* connection as c2 and
\*   out = "cont":  goes on reading;
\*   out = "send":  calls self.sender.send(frame) and loops;
\*   out = "err":   returns Err(c2.result) through the ? of start();
\*   out = "panic": panics, which unwinds the thread of start().
HandlerStep(s, i, c2, out, frame) ==
    LET res == CASE out = "cont" -> "cont"
                 [] out = "send" -> IF ReceiverAlive THEN "sent" ELSE SendErr(s)
                 [] out = "err" -> c2.result
                 [] out = "panic" -> "panic"
        c3 == CASE res = "cont" -> c2
                [] res = "sent" -> [c2 EXCEPT !.pubs = Append(@, frame)]
                [] res = "panic" -> Panicked(c2)
                [] OTHER -> Failed(c2, res)
    IN  /\ conns' = [conns EXCEPT ![s][i] = c3]
        /\ listener' = [listener EXCEPT ![s] =
                          CASE res \in {"cont", "sent"} -> @
                            [] res = "panic" -> "panicked"
                            [] OTHER -> "returned_err"]
        /\ chan' = IF res = "sent" THEN [chan EXCEPT ![s] = Append(@, frame)] ELSE chan
        /\ decoded' = IF res = "sent" THEN [decoded EXCEPT ![s] = Append(@, frame)]
                      ELSE decoded
        /\ faults' = CASE res \in {"cont", "sent"} -> faults
                       [] out = "panic" -> faults \cup {<< "decode", s >>}
                       [] out = "send" -> faults \cup {<< "channel", s >>}
                       [] OTHER -> faults \cup {<< "stream", s >>}
        /\ handler_window(s, res, frame)
        /\ UNCHANGED << slot_vars, ctrl_vars, created, video_format, display, quota, consumed, sentWhole >>

NoFrame == [none |-> TRUE]

(***************************************************************************)
(* Camera::handle_mjpeg                                                    *)
(***************************************************************************)
\* let size = stream.read_u32::<LittleEndian>()? as usize;
handle_mjpeg_size(i) ==
    LET c == conns["camera"][i]
    IN  /\ c.st = "size"
        /\ \/ /\ CanRead(c, 4)
              /\ HandlerStep("camera", i,
                     [c EXCEPT !.size = U32LE(Take(c, 4)), !.wire = Drop(c, 4),
                               !.st = "payload"], "cont", NoFrame)
           \/ \E e \in ReadErr(c, 4) :
                 HandlerStep("camera", i, [c EXCEPT !.result = e], "err", NoFrame)

\* stream.read_exact(&mut bytes[..])?; decode; self.sender.send(camera_data)
handle_mjpeg_payload(i) ==
    LET c == conns["camera"][i]
        bytes == Take(c, c.size)
        c2 == [c EXCEPT !.wire = Drop(c, c.size), !.st = "size"]
    IN  /\ c.st = "payload"
        /\ \/ /\ CanRead(c, c.size)
              /\ IF JPEGDecoderNew(bytes) /\ ReadImageOk(bytes)
                 THEN HandlerStep("camera", i, c2, "send",
                          [image_bytes |-> ReadImage(bytes),
                           width |-> Dimensions(bytes)[1],
                           height |-> Dimensions(bytes)[2]])
                 ELSE \* .expect("Couldn't make decoder") / .expect("Couldn't read image")
                      HandlerStep("camera", i, c2, "panic", NoFrame)
           \/ \E e \in ReadErr(c, c.size) :
                 HandlerStep("camera", i, [c EXCEPT !.result = e], "err", NoFrame)

(***************************************************************************)
(* Lidar::handle_lidar_stream                                              *)
(***************************************************************************)
\* (bug variant: the scan is sent from inside the loop, after any read)
ScanDoneEarly(c) == TRUE

\* for _ in 0..scan_size { .. }: the loop is left when no pair is left to read
ScanDone(c) == c.todo = 0

\* (bug variant: the pair is pushed as (distance, angle))
LidarSampleSwapped(angle, distance) == << distance, angle >>

\* scan.push((angle, distance))
LidarSample(angle, distance) == << angle, distance >>

\* let mut scan = Vec::new(); let scan_size = stream.read_u32::<LittleEndian>()?;
handle_lidar_count(i) ==
    LET c == conns["lidar"][i]
        scan_size == U32LE(Take(c, 4))
        c2 == [c EXCEPT !.wire = Drop(c, 4), !.scan = << >>, !.todo = scan_size]
    IN  /\ c.st = "count"
        /\ \/ /\ CanRead(c, 4)
              /\ IF ScanDone(c2)
                 THEN HandlerStep("lidar", i, c2, "send", [distances |-> << >>])
                 ELSE HandlerStep("lidar", i, [c2 EXCEPT !.st = "angle"], "cont", NoFrame)
           \/ \E e \in ReadErr(c, 4) :
                 HandlerStep("lidar", i, [c EXCEPT !.result = e], "err", NoFrame)

\* let angle = stream.read_f32::<LittleEndian>()?;
handle_lidar_angle(i) ==
    LET c == conns["lidar"][i]
    IN  /\ c.st = "angle"
        /\ \/ /\ CanRead(c, 4)
              /\ HandlerStep("lidar", i,
                     [c EXCEPT !.angle = F32LE(Take(c, 4)), !.wire = Drop(c, 4),
                               !.st = "distance"], "cont", NoFrame)
           \/ \E e \in ReadErr(c, 4) :
                 HandlerStep("lidar", i, [c EXCEPT !.result = e], "err", NoFrame)

\* let distance = stream.read_f32::<LittleEndian>()?; scan.push((angle, distance));
\* after the last pair: self.sender.send(lidar_data)
handle_lidar_distance(i) ==
    LET c == conns["lidar"][i]
        scan == Append(c.scan, LidarSample(c.angle, F32LE(Take(c, 4))))
        c2 == [c EXCEPT !.wire = Drop(c, 4), !.scan = scan, !.todo = @ - 1]
    IN  /\ c.st = "distance"
        /\ \/ /\ CanRead(c, 4)
              /\ IF ScanDone(c2)
                 THEN HandlerStep("lidar", i, [c2 EXCEPT !.st = "count"], "send",
                          [distances |-> scan])
                 ELSE HandlerStep("lidar", i, [c2 EXCEPT !.st = "angle"], "cont", NoFrame)
           \/ \E e \in ReadErr(c, 4) :
                 HandlerStep("lidar", i, [c EXCEPT !.result = e], "err", NoFrame)

(***************************************************************************)
(* Gps::handle_gps                                                         *)
(***************************************************************************)
\* let lat = stream.read_f32::<LittleEndian>()?;
handle_gps_lat(i) ==
    LET c == conns["gps"][i]
    IN  /\ c.st = "lat"
        /\ \/ /\ CanRead(c, 4)
              /\ HandlerStep("gps", i,
                     [c EXCEPT !.lat = F32LE(Take(c, 4)), !.wire = Drop(c, 4),
                               !.st = "lon"], "cont", NoFrame)
           \/ \E e \in ReadErr(c, 4) :
                 HandlerStep("gps", i, [c EXCEPT !.result = e], "err", NoFrame)

\* (bug variant: the two floats are taken as longitude, then latitude)
GpsDataSwapped(lat, lon) == [lat |-> lon, lon |-> lat]

\* let data = GpsData { lat, lon };
GpsData(lat, lon) == [lat |-> lat, lon |-> lon]

\* let lon = stream.read_f32::<LittleEndian>()?; self.sender.send(data).unwrap();
handle_gps_lon(i) ==
    LET c == conns["gps"][i]
    IN  /\ c.st = "lon"
        /\ \/ /\ CanRead(c, 4)
              /\ HandlerStep("gps", i, [c EXCEPT !.wire = Drop(c, 4), !.st = "lat"], "send",
                     GpsData(c.lat, F32LE(Take(c, 4))))
           \/ \E e \in ReadErr(c, 4) :
                 HandlerStep("gps", i, [c EXCEPT !.result = e], "err", NoFrame)

(***************************************************************************)
(* The display loop and the render ticks of the sensor windows.            *)
(***************************************************************************)
\* (bug variant: the newest queued frame is returned, not the oldest)
try_recv_last(s) ==
    IF chan[s] # << >> THEN [ok |-> TRUE, frame |-> chan[s][Len(chan[s])]] ELSE [ok |-> FALSE]

\* (bug variant: a lone queued frame is left in the channel)
try_recv_backlog(s) ==
    IF Len(chan[s]) > 1 THEN [ok |-> TRUE, frame |-> Head(chan[s])] ELSE [ok |-> FALSE]

\* self.receiver.try_recv(): Ok(frame) iff a frame is queued; Err(Empty) or
\* Err(Disconnected) otherwise, at once.
try_recv(s) ==
    IF chan[s] # << >> THEN [ok |-> TRUE, frame |-> Head(chan[s])] ELSE [ok |-> FALSE]

\* (bug variant: the tick polls until the channel is empty)
PolledDrain(s, r) ==
    /\ chan' = [chan EXCEPT ![s] = << >>]
    /\ consumed' = [consumed EXCEPT ![s] = @ \o chan[s]]

\* the channel and the consumer's history after the poll r of sensor s
Polled(s, r) ==
    /\ chan' = IF r.ok THEN [chan EXCEPT ![s] = Tail(@)] ELSE chan
    /\ consumed' = IF r.ok THEN [consumed EXCEPT ![s] = Append(@, r.frame)] ELSE consumed

\* CameraWindow::render
render_camera ==
    /\ display = "running"
    /\ "camera" \in created
    /\ LET r == try_recv("camera")
       IN  /\ Polled("camera", r)
           /\ camWin' = IF r.ok
                        THEN [texture_id |-> TRUE, window_width |-> r.frame.width,
                              window_height |-> r.frame.height]
                        ELSE camWin
    /\ UNCHANGED << slot_vars, ctrl_vars, created, video_format, listener, conns, display, lidWin, gpsWin, tile_requests,
                    quota, decoded, sentWhole, faults >>

\* LidarWindow::render
render_lidar ==
    /\ display = "running"
    /\ "lidar" \in created
    /\ LET r == try_recv("lidar")
       IN  /\ Polled("lidar", r)
           /\ lidWin' = IF r.ok
                        THEN [texture_id |-> TRUE, lidar_data |-> r.frame.distances]
                        ELSE lidWin
    /\ UNCHANGED << slot_vars, ctrl_vars, created, video_format, listener, conns, display, camWin, gpsWin, tile_requests,
                    quota, decoded, sentWhole, faults >>

\* width and height of one map tile
TileSize == 256

(***************************************************************************)
(* The tile engine of the GPS window.  Latitudes and longitudes are        *)
(* computed in units of 2^-20 degrees, lengths in metres, and a result is  *)
(* rounded down where the code takes the floor.  The transcendental parts  *)
(* of the formulas are tabulated, from their f32 values, for the           *)
(* latitudes and tile rows that the fixes of GpsFixes and the query of     *)
(* (0.0, 0.0) lead to.                                                     *)
(***************************************************************************)
DegUnit == 2 ^ 20

Abs(a) == IF a < 0 THEN 0 - a ELSE a

\* the degrees of an f32, in units of 2^-20 degrees: the f32 with exponent
\* field e and mantissa field f is (2^23 + f) * 2^(e - 150)
F32Deg(v) ==
    LET e == Abs(v) \div 8388608
        m == (Abs(v) % 8388608) + 8388608
        mag == IF e < 107 THEN 0
               ELSE IF e < 130 THEN m \div (2 ^ (130 - e))
               ELSE m * (2 ^ (e - 130))
    IN  IF v < 0 THEN 0 - mag ELSE mag

\* static METERS_PER_PIXEL: [f32; 21], in millimetres
METERS_PER_PIXEL ==
    << 156412000, 78206000, 39103000, 19551000, 9776000, 4888000,
       2444000, 1222000, 610984, 305492, 152746, 76373,
       38187, 19093, 9547, 4773, 2387, 1193, 596, 298, 149 >>

\* (1.0 - lat_rad.tan().asinh() / PI) / 2.0 for the latitude lat (an f32), in
\* units of 2^-24
MercatorY(lat) ==
    CASE lat = 0 -> 8388608
      [] lat = 1111228416 -> 5900986
      [] lat = 1111236608 -> 5898851
      [] lat = 1111230115 -> 5900544
      [] lat = 1111231814 -> 5900101
      [] lat = 1111139025 -> 5924215
      [] lat = 1111231096 -> 5900288
      [] lat = 1111233059 -> 5899776
      [] lat = 1111140473 -> 5923839
      [] lat = 1118444077 -> 4

\* 180.0 / PI * (0.5 * (n.exp() - (-n).exp())).atan() for
\* n = PI - 2.0 * PI * y_tile / 2^zoom: the latitude of the northern edge of
\* the tile row y_tile
TileLat(zoom, y_tile) ==
    CASE zoom = 0 /\ y_tile = 0 -> 89182568
      [] zoom = 16 /\ y_tile = 23049 -> 49289868
      [] zoom = 16 /\ y_tile = 23050 -> 49285936
      [] zoom = 16 /\ y_tile = 23051 -> 49282008
      [] zoom = 16 /\ y_tile = 23041 -> 49321280
      [] zoom = 16 /\ y_tile = 23042 -> 49317352
      [] zoom = 16 /\ y_tile = 23043 -> 49313428
      [] zoom = 16 /\ y_tile = 23048 -> 49293792
      [] zoom = 16 /\ y_tile = 23046 -> 49301644
      [] zoom = 16 /\ y_tile = 23140 -> 48931300

\* (lat * PI / 180.0).cos(), in units of 1/10000
Cos(lat) ==
    CASE lat = 0 -> 10000
      [] lat = 1111228416 -> 6820
      [] lat = 1111236608 -> 6816
      [] lat = 1111230115 -> 6819
      [] lat = 1111231814 -> 6818
      [] lat = 1111139025 -> 6863

\* 111_132.92 - 559.82 * (2.0 * lat_rad).cos() + 1.175 * (4.0 * lat_rad).cos()
\*     - 0.0023 * (6.0 * lat_rad).cos(): the metres of one degree of latitude
LatMeters(lat) ==
    CASE lat = 0 -> 110574
      [] lat = 1111228416 -> 111171
      [] lat = 1111236608 -> 111171
      [] lat = 1111230115 -> 111171
      [] lat = 1111231814 -> 111171
      [] lat = 1111139025 -> 111164

\* 111_412.84 * lat_rad.cos() - 93.5 * (3.0 * lat_rad).cos()
\*     + 0.118 * (5.0 * lat_rad).cos(): the metres of one degree of longitude
LonMeters(lat) ==
    CASE lat = 0 -> 111319
      [] lat = 1111228416 -> 76056
      [] lat = 1111236608 -> 76012
      [] lat = 1111230115 -> 76047
      [] lat = 1111231814 -> 76038
      [] lat = 1111139025 -> 76539

\* GpsWindow::meters_per_pixel, in units of 0.1 mm
meters_per_pixel(w) == (METERS_PER_PIXEL[w.zoom + 1] * Cos(w.query_lat)) \div 1000

\* floor(p * d / 2^20), for p < 2^20 and d < 2^31, without a product of 2^31
\* or more
MulShift(p, d) ==
    (p * (d \div 1048576))
    + (((p * ((d \div 1024) % 1024)) + ((p * (d % 1024)) \div 1024)) \div 1024)

\* (bug variant: the offsets keep their sign)
coords_to_pixel_signed(w, coords) ==
    LET mpp == meters_per_pixel(w)
    IN  << MulShift((w.lon_meters * 10000) \div mpp, F32Deg(coords.lon) - w.nw_lon),
           MulShift((w.lat_meters * 10000) \div mpp, F32Deg(coords.lat) - w.nw_lat) >>

\* (bug variant: the offsets are taken from the queried position)
coords_to_pixel_query(w, coords) ==
    LET mpp == meters_per_pixel(w)
    IN  << MulShift((w.lon_meters * 10000) \div mpp,
                    Abs(F32Deg(coords.lon) - F32Deg(w.query_lon))),
           MulShift((w.lat_meters * 10000) \div mpp,
                    Abs(F32Deg(coords.lat) - F32Deg(w.query_lat))) >>

\* GpsWindow::coords_to_pixel: (meters per degree / meters per pixel) pixels
\* per degree, times the degrees between the fix and the northwestern corner.
\* The pixel is that of the f32 computation for a fix within some tiles of
\* the composite; farther away it is within 1/1000 of it.
coords_to_pixel(w, coords) ==
    LET mpp == meters_per_pixel(w)
        lon_diff == MulShift((w.lon_meters * 10000) \div mpp,
                             Abs(F32Deg(coords.lon) - w.nw_lon))
        lat_diff == MulShift((w.lat_meters * 10000) \div mpp,
                             Abs(F32Deg(coords.lat) - w.nw_lat))
    IN  << lon_diff, lat_diff >>

\* (bug variant: the block of tiles starts at the tile of the fix)
query_tiles_corner(x_tile, y_tile, zoom) ==
    [k \in 1..9 |-> << zoom, x_tile + ((k - 1) % 3), y_tile + ((k - 1) \div 3) >>]

\* GpsWindow::query_tiles with query_map_row: the requests for the rows
\* y_tile - 1, y_tile, y_tile + 1 of the tiles x_tile - 1, x_tile, x_tile + 1
query_tiles(x_tile, y_tile, zoom) ==
    [k \in 1..9 |-> << zoom, (x_tile - 1) + ((k - 1) % 3), (y_tile - 1) + ((k - 1) \div 3) >>]

\* the bytes of one pixel row of a tile: 256 * 3
TileLine == TileSize * 3

\* (bug variant: the tiles of a row are appended one after the other)
query_map_row_tilewise(row_length, p) ==
    << p \div (TileSize * TileLine), p % (TileSize * TileLine) >>

\* GpsWindow::query_map_row: where byte p of map_row comes from, as
\* <<ix, offset in tiles[ix].data>>.  The row is built by
\*   for row_num in 0..256 { for tile in &tiles {
\*       map_row.extend_from_slice(&tile.data[row_num*256*3 .. row_num*256*3 + 256*3]) } }
query_map_row(row_length, p) ==
    LET row_num == p \div (row_length * TileLine)
        ix == (p % (row_length * TileLine)) \div TileLine
    IN  << ix, (row_num * TileLine) + (p % TileLine) >>

\* the length of map_row
map_row_len(row_length) == TileSize * row_length * TileLine

\* GpsWindow::query_tiles, image_bytes: the three rows y = -1, 0, 1 appended;
\* where byte p of the raster of window w comes from, as
\* <<zoom, x of the tile, y of the tile, offset in its data>>
image_bytes(w, p) ==
    IF w.zoom > 0
    THEN LET y == p \div map_row_len(3)
             src == query_map_row(3, p % map_row_len(3))
         IN  << w.zoom, (w.x_tile - 1) + src[1], (w.y_tile - 1) + y, src[2] >>
    ELSE << w.zoom, w.x_tile, w.y_tile, p >>

\* image_bytes.len()
image_bytes_len(w) == IF w.zoom > 0 THEN 3 * map_row_len(3) ELSE TileSize * TileLine

\* the tile that contains (lat, lon) at the given zoom, as <<x_tile, y_tile>>:
\*   ((lon + 180.0) / 360.0 * n).floor() as u32
\*   ((1.0 - (lat_rad.tan().asinh()) / PI) / 2.0 * n).floor() as u32
tile_of(zoom, lat, lon) ==
    LET n == 2 ^ zoom
    IN  << (F32Deg(lon) + 180 * DegUnit) \div (360 * (DegUnit \div n)),
           MercatorY(lat) \div ((2 ^ 24) \div n) >>

\* the f32 of d units of 2^-20 degrees, by its bits (d is the value of an
\* f32): the inverse of F32Deg
F32OfDeg(d) ==
    LET mag == Abs(d)
        bits == IF mag = 0 THEN 0
                ELSE IF mag >= 8388608
                THEN LET k == CHOOSE j \in 0..7 : 8388608 <= (mag \div (2 ^ j)) /\ (mag \div (2 ^ j)) < 16777216
                     IN  ((130 + k) * 8388608) + ((mag \div (2 ^ k)) - 8388608)
                ELSE LET k == CHOOSE j \in 1..23 : 8388608 <= (mag * (2 ^ j)) /\ (mag * (2 ^ j)) < 16777216
                     IN  ((130 - k) * 8388608) + ((mag * (2 ^ k)) - 8388608)
    IN  IF d < 0 THEN 0 - bits ELSE bits

\* GpsWindow::query_osm(lat, lon) when every tile request returned Ok: one
\* tile at zoom 0, else three rows of three tiles
query_osm(w, lat, lon) ==
    LET n == 2 ^ (w.zoom)
        tile_deg == 360 * (DegUnit \div n)
        x_tile == tile_of(w.zoom, lat, lon)[1]
        y_tile == tile_of(w.zoom, lat, lon)[2]
        nw_xtile == IF w.zoom > 0 THEN x_tile - 1 ELSE x_tile
        nw_ytile == IF w.zoom > 0 THEN y_tile - 1 ELSE y_tile
    IN  [w EXCEPT !.query_lat = lat, !.query_lon = lon,
                  !.x_tile = x_tile, !.y_tile = y_tile,
                  !.image_empty = FALSE,
                  !.width = IF w.zoom > 0 THEN 3 * TileSize ELSE TileSize,
                  !.height = IF w.zoom > 0 THEN 3 * TileSize ELSE TileSize,
                  !.nw_lon = (nw_xtile * tile_deg) - 180 * DegUnit,
                  !.nw_lat = TileLat(w.zoom, nw_ytile),
                  !.lat_meters = LatMeters(lat),
                  !.lon_meters = LonMeters(lat)]

\* self.x_tile - 1 in query_tiles, on u32, when the tile of the fix is in the
\* westernmost column: a build with overflow checks panics there; a build
\* without them wraps to 4294967295, which is carried, like every u32 of the
\* model, as the i32 of the same bits (-1).  (self.y_tile as i32 + y) as u32
\* wraps in the same way in every build.
sub_overflows(w, lat, lon) == w.zoom > 0 /\ tile_of(w.zoom, lat, lon)[1] = 0

\* the tile service has the tile of the request req
TileExists(req) ==
    /\ 0 <= req[2] /\ req[2] < 2 ^ req[1]
    /\ 0 <= req[3] /\ req[3] < 2 ^ req[1]

\* The requests query_osm(lat, lon) of the window w sends to the tile
\* service: up to the first one that fails.  When the service is down that
\* is the first one, else it is the first one for a tile that does not
\* exist; no request is sent when the subtraction panicked (overflow_checks).
tile_queries(w, lat, lon, answered, overflow_checks) ==
    LET t == tile_of(w.zoom, lat, lon)
        all == IF w.zoom > 0 THEN query_tiles(t[1], t[2], w.zoom)
               ELSE << << w.zoom, t[1], t[2] >> >>
        missing == {k \in DOMAIN all : ~TileExists(all[k])}
    IN  IF sub_overflows(w, lat, lon) /\ overflow_checks THEN << >>
        ELSE IF ~answered THEN << all[1] >>
        ELSE IF missing # {}
        THEN SubSeq(all, 1, CHOOSE k \in missing : \A j \in missing : k <= j)
        ELSE all

\* query_osm(lat, lon) of the window w returns Err or panics
query_fails(w, lat, lon, answered, overflow_checks) ==
    LET t == tile_of(w.zoom, lat, lon)
        all == IF w.zoom > 0 THEN query_tiles(t[1], t[2], w.zoom)
               ELSE << << w.zoom, t[1], t[2] >> >>
    IN  \/ sub_overflows(w, lat, lon) /\ overflow_checks
        \/ ~answered
        \/ \E k \in DOMAIN all : ~TileExists(all[k])

\* (bug variant: a fix that did not move is not added to the track)
points_push_moved(points, pixel_coords) ==
    IF points # << >> /\ points[Len(points)] = pixel_coords THEN points
    ELSE Append(points, pixel_coords)

\* self.points.push(pixel_coords)
points_push(points, pixel_coords) == Append(points, pixel_coords)

\* (bug variant: every fix queries its tiles)
needs_tiles_always(w) == TRUE

\* if self.zoom == 0: the zoom is zero until the first fix is received
needs_tiles(w) == w.zoom = 0

\* The builds whose ticks differ in the current state: with and without
\* overflow checks where a query_osm of the tick subtracts from the tile
\* column 0 (self.x_tile - 1 on a u32), one build elsewhere, as the two then
\* compute the same tick
Builds ==
    IF \/ /\ gpsWin.image_empty
          /\ sub_overflows(gpsWin, gpsWin.query_lat, gpsWin.query_lon)
       \/ /\ chan["gps"] # << >>
          /\ sub_overflows([gpsWin EXCEPT !.zoom = 16],
                           Head(chan["gps"]).lat, Head(chan["gps"]).lon)
    THEN BOOLEAN
    ELSE {TRUE}

\* GpsWindow::render; tiles1 and tiles2 tell whether the tile service answers
\* the requests of the first and of the second query_osm of this tick,
\* overflow_checks whether the build panics on integer overflow
render_gps(tiles1, tiles2) ==
    /\ display = "running"
    /\ "gps" \in created
    /\ \E overflow_checks \in Builds :
       LET first == gpsWin.image_empty
           \* if self.image.is_empty() { self.query_osm(..).expect("Couldn't get tiles"); .. }
           crash1 == first /\ query_fails(gpsWin, gpsWin.query_lat, gpsWin.query_lon,
                                          tiles1, overflow_checks)
           w1 == IF first
                 THEN [query_osm(gpsWin, gpsWin.query_lat, gpsWin.query_lon)
                         EXCEPT !.texture_id = TRUE]
                 ELSE gpsWin
           req1 == IF first
                   THEN tile_queries(gpsWin, gpsWin.query_lat, gpsWin.query_lon, tiles1,
                                     overflow_checks)
                   ELSE << >>
           r == IF crash1 THEN [ok |-> FALSE] ELSE try_recv("gps")
           \* if self.zoom == 0 { self.zoom = 16; self.query_osm(..).unwrap(); }
           second == r.ok /\ needs_tiles(w1)
           crash2 == second /\ query_fails([w1 EXCEPT !.zoom = 16], r.frame.lat, r.frame.lon,
                                           tiles2, overflow_checks)
           overflow == second /\ overflow_checks
                       /\ sub_overflows([w1 EXCEPT !.zoom = 16], r.frame.lat, r.frame.lon)
           w2 == IF second
                 THEN query_osm([w1 EXCEPT !.zoom = 16], r.frame.lat, r.frame.lon)
                 ELSE w1
           req2 == IF second
                   THEN tile_queries([w1 EXCEPT !.zoom = 16], r.frame.lat, r.frame.lon, tiles2,
                                     overflow_checks)
                   ELSE << >>
           \* let pixel_coords = self.coords_to_pixel(&gps_data); self.points.push(..)
           w3 == [w2 EXCEPT !.points = points_push(@, coords_to_pixel(w2, r.frame)),
                            !.texture_id = TRUE]
       IN  /\ Polled("gps", r)
           /\ gpsWin' = IF crash1 THEN gpsWin
                        ELSE IF crash2 THEN [w1 EXCEPT !.zoom = 16]
                        ELSE IF r.ok THEN w3
                        ELSE w1
           /\ tile_requests' = tile_requests \o req1 \o req2
           /\ display' = IF crash1 \/ crash2 THEN "panicked" ELSE display
           /\ faults' = IF overflow THEN faults \cup {<< "overflow", "gps" >>}
                        ELSE IF crash1 \/ crash2 THEN faults \cup {<< "tile", "gps" >>}
                        ELSE faults
    /\ UNCHANGED << slot_vars, ctrl_vars, created, video_format, listener, conns, camWin, lidWin,
                    quota, decoded, sentWhole >>

\* WindowEvent::CloseRequested: the display loop returns and the sensor
\* windows, with their receivers, are dropped
CloseRequested ==
    /\ display = "running"
    /\ display' = "closed"
    /\ UNCHANGED << slot_vars, ctrl_vars, created, video_format, listener, conns, chan, camWin, lidWin,
                    gpsWin, tile_requests, quota, decoded, consumed, sentWhole, faults >>

(***************************************************************************)
(* Specification.                                                          *)
(***************************************************************************)
Next ==
    \/ \E s \in created : start_bind(s)
    \/ \E s \in created : start_accept(s)
    \/ \E s \in created : Connect(s)
    \/ \E s \in created : \E i \in DOMAIN conns[s] : \E m \in Messages(s) :
          \E n \in Cuts(m) \cup {Len(m)} : ClientSend(s, i, m, n)
    \/ \E s \in created : \E i \in DOMAIN conns[s] : ClientClose(s, i)
    \/ \E i \in DOMAIN conns["camera"] : handle_mjpeg_size(i)
    \/ \E i \in DOMAIN conns["camera"] : handle_mjpeg_payload(i)
    \/ \E i \in DOMAIN conns["lidar"] : handle_lidar_count(i)
    \/ \E i \in DOMAIN conns["lidar"] : handle_lidar_angle(i)
    \/ \E i \in DOMAIN conns["lidar"] : handle_lidar_distance(i)
    \/ \E i \in DOMAIN conns["gps"] : handle_gps_lat(i)
    \/ \E i \in DOMAIN conns["gps"] : handle_gps_lon(i)
    \/ render_camera
    \/ render_lidar
    \/ \E tiles1, tiles2 \in BOOLEAN : render_gps(tiles1, tiles2)
    \/ CloseRequested

Spec == Init /\ [][Next]_vars

\* The messages of the clients when all three sensors run at once: a JPEG
\* and a payload that is no image for the camera, the scan of two samples
\* for the LIDAR, the fix (47.0, 8.0) for the GPS.
MessagesAll(s) ==
    CASE s = "camera" -> {CameraMsg(JpegRgb), CameraMsg(NotJpeg)}
      [] s = "lidar" -> {LidarMsg(<< <<0, 1092616192>>, <<1070141433, 1084227584>> >>)}
      [] s = "gps" -> {GpsMsg(1111228416, 1090519040)}

\* All three sensor windows at once, the camera in MJPEG; every sensor gets
\* one connection, on which its client writes one whole message and which
\* it may close.
InitAll == InitWith(Sensors, 1) /\ video_format = "MJPEG"

NextAll ==
    \/ \E s \in created : start_bind(s)
    \/ \E s \in created : start_accept(s)
    \/ \E s \in created : conns[s] = << >> /\ Connect(s)
    \/ \E s \in created : \E i \in DOMAIN conns[s] : \E m \in MessagesAll(s) :
          ClientSend(s, i, m, Len(m))
    \/ \E s \in created : \E i \in DOMAIN conns[s] : ClientClose(s, i)
    \/ \E i \in DOMAIN conns["camera"] : handle_mjpeg_size(i)
    \/ \E i \in DOMAIN conns["camera"] : handle_mjpeg_payload(i)
    \/ \E i \in DOMAIN conns["lidar"] : handle_lidar_count(i)
    \/ \E i \in DOMAIN conns["lidar"] : handle_lidar_angle(i)
    \/ \E i \in DOMAIN conns["lidar"] : handle_lidar_distance(i)
    \/ \E i \in DOMAIN conns["gps"] : handle_gps_lat(i)
    \/ \E i \in DOMAIN conns["gps"] : handle_gps_lon(i)
    \/ render_camera
    \/ render_lidar
    \/ \E tiles1, tiles2 \in BOOLEAN : render_gps(tiles1, tiles2)
    \/ CloseRequested

SpecAll == InitAll /\ [][NextAll]_vars

(***************************************************************************)
(* The configuration modals: "Create Sensor Window".                       *)
(***************************************************************************)
\* render_modal of CameraConfig, LidarConfig and GpsConfig when the button is
\* pressed; parsed tells whether the text of the address field parses as a
\* SocketAddr.  The address is parsed, with expect, in the argument of
\* start(), on the thread of the display loop and before the listener thread
\* is spawned and the window is pushed.
render_modal(s, parsed) ==
    /\ display = "running"
    /\ s \notin created
    /\ IF parsed
       THEN /\ created' = created \cup {s}
            /\ listener' = [listener EXCEPT ![s] = "bind"]
            /\ UNCHANGED << display, faults >>
       ELSE \* .parse().expect("couldn't parse IP address")
            /\ display' = "panicked"
            /\ faults' = faults \cup {<< "address", s >>}
            /\ UNCHANGED << created, listener >>
    /\ UNCHANGED << slot_vars, ctrl_vars, video_format, conns, chan, camWin, lidWin, gpsWin, tile_requests, quota,
                    decoded, consumed, sentWhole >>

\* The operator creates the sensor windows one by one; every sensor gets at
\* most one connection, on which nothing is written.
InitModal == InitWith({}, 0)

NextModal ==
    \/ \E s \in Sensors : \E parsed \in BOOLEAN : render_modal(s, parsed)
    \/ \E s \in created : start_bind(s)
    \/ \E s \in created : start_accept(s)
    \/ \E s \in created : conns[s] = << >> /\ Connect(s)
    \/ \E s \in created : \E i \in DOMAIN conns[s] : ClientClose(s, i)
    \/ \E i \in DOMAIN conns["camera"] : handle_mjpeg_size(i)
    \/ \E i \in DOMAIN conns["lidar"] : handle_lidar_count(i)
    \/ \E i \in DOMAIN conns["gps"] : handle_gps_lat(i)
    \/ render_camera
    \/ render_lidar
    \/ \E tiles1, tiles2 \in BOOLEAN : render_gps(tiles1, tiles2)
    \/ CloseRequested

SpecModal == InitModal /\ [][NextModal]_vars

(***************************************************************************)
(* A LIDAR that speaks the fixed grammar: 360 big-endian floats per scan,  *)
(* no count.                                                               *)
(***************************************************************************)
\* what a client writes for the f32 with the given bits in network byte order
BE4(n) == << (n \div 16777216) % 256, (n \div 65536) % 256, (n \div 256) % 256, n % 256 >>

\* the distances of one revolution, one per degree, every f32 by its bits:
\* 360 different distances between 1.0 m and 1.011 m
FixedScan == [k \in 1..360 |-> 1065353216 + 256 * k]

\* the bytes of one fixed-grammar scan
FixedMsg == [j \in 1..(4 * Len(FixedScan)) |->
                BE4(FixedScan[((j - 1) \div 4) + 1])[((j - 1) % 4) + 1]]

\* One LIDAR window, whose client writes one fixed-grammar scan on one
\* connection.
InitFixed == InitWith({"lidar"}, 1)

NextFixed ==
    \/ start_bind("lidar")
    \/ start_accept("lidar")
    \/ conns["lidar"] = << >> /\ Connect("lidar")
    \/ \E i \in DOMAIN conns["lidar"] : ClientSend("lidar", i, FixedMsg, Len(FixedMsg))
    \/ \E i \in DOMAIN conns["lidar"] : ClientClose("lidar", i)
    \/ \E i \in DOMAIN conns["lidar"] : handle_lidar_count(i)
    \/ \E i \in DOMAIN conns["lidar"] : handle_lidar_angle(i)
    \/ \E i \in DOMAIN conns["lidar"] : handle_lidar_distance(i)
    \/ render_lidar
    \/ CloseRequested

SpecFixed == InitFixed /\ [][NextFixed]_vars

(***************************************************************************)
(* A GPS whose fixes lie at chosen places of the map.                      *)
(***************************************************************************)
\* The fixes of the track, as (latitude, longitude), every f32 by its bits:
\*   (47.0, 8.0);
\*   (47.0064811706543, 7.9925537109375), the northwestern corner of the
\*     composite of (47.0, 8.0);
\*   (47.012962341308594, 7.985107421875), the mirror image of (47.0, 8.0)
\*     in that corner;
\*   (46.659000396728516, 8.0), in the tile row 23141;
\*   (47.0, -180.0), in the westernmost tile column.
TrackFixes ==
    { << 1111228416, 1090519040 >>, << 1111230115, 1090503424 >>,
      << 1111231814, 1090487808 >>, << 1111139025, 1090519040 >>,
      << 1111228416, -1127481344 >> }

\* One GPS window, whose client writes whole fixes of the track on one
\* connection.
InitTrack == InitWith({"gps"}, MaxMsgs)

NextTrack ==
    \/ start_bind("gps")
    \/ start_accept("gps")
    \/ conns["gps"] = << >> /\ Connect("gps")
    \/ \E i \in DOMAIN conns["gps"] : \E fix \in TrackFixes :
          ClientSend("gps", i, GpsMsg(fix[1], fix[2]), 8)
    \/ \E i \in DOMAIN conns["gps"] : ClientClose("gps", i)
    \/ \E i \in DOMAIN conns["gps"] : handle_gps_lat(i)
    \/ \E i \in DOMAIN conns["gps"] : handle_gps_lon(i)
    \/ \E tiles1, tiles2 \in BOOLEAN : render_gps(tiles1, tiles2)
    \/ CloseRequested

SpecTrack == InitTrack /\ [][NextTrack]_vars

(***************************************************************************)
(* Controller::start: the thread that sends the events of the gamepad.     *)
(***************************************************************************)
\* thread::sleep(Duration::from_secs(10))
SleepSecs == 10

\* The events of the menu: the unit variants of GpEvent.
GpEvents == {"Connected", "Disconnected", "Dropped"}

\* the UTF-8 bytes of the names of the variants
Utf8(name) ==
    CASE name = "Connected" -> << 67, 111, 110, 110, 101, 99, 116, 101, 100 >>
      [] name = "Disconnected" -> << 68, 105, 115, 99, 111, 110, 110, 101, 99, 116, 101, 100 >>
      [] name = "Dropped" -> << 68, 114, 111, 112, 112, 101, 100 >>

\* serde_cbor::to_vec(&gp_event) of a unit variant: a CBOR text string (major
\* type 3, length below 24 in the initial byte) of the name of the variant
to_vec(gp_event) == << 96 + Len(Utf8(gp_event)) >> \o Utf8(gp_event)

\* (bug variant: the length is written in network byte order)
write_u32_be(n) == BE4(n)

\* stream.write_u32::<LittleEndian>(data.len() as u32)
write_u32(n) == LE4(n)

\* (bug variant: after a failed write the thread connects again)
write_failed_reconnect(c) == [c EXCEPT !.pc = "connect"]

\* the ? of a failed write: the closure returns the error
write_failed(c) == [c EXCEPT !.pc = "returned_err", !.result = "Err"]

\* the controller holds a connected stream
Sending == controller.pc \in {"next_event", "write_u32", "write_all", "flush"}

\* let mut gilrs = Gilrs::new().unwrap();
Gilrs_new ==
    /\ controller.pc = "new"
    /\ \E ok \in BOOLEAN :
         controller' = IF ok THEN [controller EXCEPT !.pc = "connect"]
                       ELSE [controller EXCEPT !.pc = "panicked", !.result = "panic"]
    /\ UNCHANGED << slot_vars, created, video_format, listener, conns, chan, display, camWin,
                    lidWin,
                    gpsWin, tile_requests, quota, decoded, consumed, sentWhole, faults,
                    remote, gilrs >>

\* match TcpStream::connect(ip) { Ok(conn) => break conn, Err(_) => thread::sleep(..) }
connect ==
    /\ controller.pc = "connect"
    /\ controller' =
          [controller EXCEPT
              !.pc = IF remote.state = "accepting" THEN "next_event" ELSE "sleep",
              !.slept = 0,
              !.attempts = IF @ < MaxAttempts THEN @ + 1 ELSE @]
    /\ UNCHANGED << slot_vars, created, video_format, listener, conns, chan, display, camWin,
                    lidWin,
                    gpsWin, tile_requests, quota, decoded, consumed, sentWhole, faults,
                    remote, gilrs >>

\* one second of thread::sleep(Duration::from_secs(10)), which returns when
\* ten seconds have passed
sleep ==
    /\ controller.pc = "sleep"
    /\ controller' =
          [controller EXCEPT !.slept = @ + 1,
                             !.pc = IF controller.slept + 1 = SleepSecs THEN "connect" ELSE @]
    /\ UNCHANGED << slot_vars, created, video_format, listener, conns, chan, display, camWin,
                    lidWin,
                    gpsWin, tile_requests, quota, decoded, consumed, sentWhole, faults,
                    remote, gilrs >>

\* The peer starts to accept, stops accepting, or, with the connection
\* established, is lost.
PeerChanges ==
    /\ remote' = [remote EXCEPT !.state =
                     CASE Sending /\ remote.state = "accepting" -> "lost"
                       [] ~Sending /\ remote.state = "accepting" -> "refusing"
                       [] remote.state = "refusing" -> "accepting"
                       [] OTHER -> @]
    /\ remote' # remote
    /\ UNCHANGED << slot_vars, created, video_format, listener, conns, chan, display, camWin,
                    lidWin,
                    gpsWin, tile_requests, quota, decoded, consumed, sentWhole, faults,
                    controller, gilrs >>

\* while let Some(Event { event, .. }) = gilrs.next_event(): the event is
\* translated to a GpEvent and serialized; without an event the loops go on
\* polling
next_event(gp_event) ==
    /\ controller.pc = "next_event"
    /\ gilrs.left > 0
    /\ gilrs' = [left |-> gilrs.left - 1, polled |-> Append(gilrs.polled, gp_event)]
    /\ controller' = [controller EXCEPT !.pc = "write_u32", !.data = to_vec(gp_event)]
    /\ UNCHANGED << slot_vars, created, video_format, listener, conns, chan, display, camWin,
                    lidWin,
                    gpsWin, tile_requests, quota, decoded, consumed, sentWhole, faults,
                    remote >>

\* A write of the bytes b on the stream: it returns Ok, or, when the peer is
\* lost, may return Err after n of the bytes were written.
stream_write(b, ok, n, pc_after) ==
    /\ ok \/ remote.state = "lost"
    /\ IF ok
       THEN /\ remote' = [remote EXCEPT !.out = @ \o b]
            /\ controller' = [controller EXCEPT !.pc = pc_after]
       ELSE /\ remote' = [remote EXCEPT !.out = @ \o SubSeq(b, 1, n), !.failed = TRUE]
            /\ controller' = write_failed(controller)
    /\ UNCHANGED << slot_vars, created, video_format, listener, conns, chan, display, camWin,
                    lidWin,
                    gpsWin, tile_requests, quota, decoded, consumed, sentWhole, faults,
                    gilrs >>

\* stream.write_u32::<LittleEndian>(data.len() as u32)?;
stream_write_u32(ok) ==
    /\ controller.pc = "write_u32"
    /\ stream_write(write_u32(Len(controller.data)), ok, 0, "write_all")

\* stream.write_all(&data)?;
stream_write_all(ok, n) ==
    /\ controller.pc = "write_all"
    /\ stream_write(controller.data, ok, n, "flush")

\* stream.flush()?; flush of a TcpStream does nothing and returns Ok(())
stream_flush ==
    /\ controller.pc = "flush"
    /\ remote' = [remote EXCEPT !.flushes = Append(@, Len(remote.out))]
    /\ controller' = [controller EXCEPT !.pc = "next_event"]
    /\ UNCHANGED << slot_vars, created, video_format, listener, conns, chan, display, camWin,
                    lidWin,
                    gpsWin, tile_requests, quota, decoded, consumed, sentWhole, faults,
                    gilrs >>

\* a step of the thread of Controller::start
ControllerStep ==
    \/ Gilrs_new
    \/ connect
    \/ sleep
    \/ \E gp_event \in GpEvents : next_event(gp_event)
    \/ \E ok \in BOOLEAN : stream_write_u32(ok)
    \/ \E ok \in BOOLEAN : \E n \in {0, Len(controller.data) \div 2} : stream_write_all(ok, n)
    \/ stream_flush

\* "Send Controller State" was pressed: the controller thread and its peer
InitCtrl ==
    /\ InitSensors({}, 0)
    /\ InitController(TRUE)
    /\ InitSingleSlot(FALSE)

NextCtrl ==
    \/ Gilrs_new
    \/ connect
    \/ sleep
    \/ PeerChanges
    \/ \E gp_event \in GpEvents : next_event(gp_event)
    \/ \E ok \in BOOLEAN : stream_write_u32(ok)
    \/ \E ok \in BOOLEAN : \E n \in {0, Len(controller.data) \div 2} : stream_write_all(ok, n)
    \/ stream_flush

SpecCtrl == InitCtrl /\ [][NextCtrl]_vars

\* the controller thread is scheduled as long as it can run
SpecCtrlFair == SpecCtrl /\ WF_vars(ControllerStep)

(***************************************************************************)
(* Reference decoders: the frames of the whole messages at the front of a  *)
(* byte stream, by the wire grammar of each sensor.                        *)
(***************************************************************************)
Bytes(b, from, n) == SubSeq(b, from, from + n - 1)

RECURSIVE RefCamera(_)
RefCamera(b) ==
    IF Len(b) < 4 \/ Len(b) < 4 + U32LE(b) THEN << >>
    ELSE LET n == U32LE(b)
             p == Bytes(b, 5, n)
         IN  IF JPEGDecoderNew(p) /\ ReadImageOk(p)
             THEN << [image_bytes |-> ReadImage(p), width |-> p[2], height |-> p[3]] >>
                  \o RefCamera(SubSeq(b, 5 + n, Len(b)))
             ELSE << >>

RECURSIVE RefLidar(_)
RefLidar(b) ==
    IF Len(b) < 4 \/ Len(b) < 4 + 8 * U32LE(b) THEN << >>
    ELSE LET k == U32LE(b)
         IN  << [distances |-> [j \in 1..k |->
                     << F32LE(Bytes(b, 8 * j - 3, 4)), F32LE(Bytes(b, 8 * j + 1, 4)) >>]] >>
             \o RefLidar(SubSeq(b, 5 + 8 * k, Len(b)))

RECURSIVE RefGps(_)
RefGps(b) ==
    IF Len(b) < 8 THEN << >>
    ELSE << [lat |-> F32LE(Bytes(b, 1, 4)), lon |-> F32LE(Bytes(b, 5, 4))] >>
         \o RefGps(SubSeq(b, 9, Len(b)))

WholeFrames(s, b) ==
    CASE s = "camera" -> RefCamera(b)
      [] s = "lidar" -> RefLidar(b)
      [] s = "gps" -> RefGps(b)

IsPrefix(a, b) == Len(a) <= Len(b) /\ a = SubSeq(b, 1, Len(a))

Range(f) == {f[x] : x \in DOMAIN f}

Terminated(s) == listener[s] \in {"returned_err", "panicked"}

(***************************************************************************)
(* Properties.                                                             *)
(***************************************************************************)
\* C1: whenever the handler of a connection has ended by a read error, a
\* decode failure or a disconnect of the peer, the listener of that sensor
\* is still in its accept loop, so that a later connection is accepted.
C1_ListenerKeepsAccepting ==
    \A s \in created : \A i \in DOMAIN conns[s] :
        conns[s][i].result \in {"UnexpectedEof", "ConnectionReset", "panic"}
            => Listening(s)

\* C2: every frame in a channel is a whole frame: the frames a handler has
\* sent are the frames of whole messages at the front of what its client
\* wrote, in order, so nothing is published for a message that was cut, and
\* every queued frame is one of them.
C2_OnlyWholeFrames ==
    \A s \in created :
        /\ \A i \in DOMAIN conns[s] :
              IsPrefix(conns[s][i].pubs, WholeFrames(s, conns[s][i].rx))
        /\ Range(chan[s]) \subseteq
              UNION {Range(conns[s][i].pubs) : i \in DOMAIN conns[s]}

\* a client stopped inside a scan after a whole pair had been read, and the
\* handler ended without publishing anything
C2_Witness ==
    \E i \in DOMAIN conns["lidar"] :
        LET c == conns["lidar"][i]
        IN  c.cut /\ c.result = "UnexpectedEof" /\ c.scan # << >> /\ c.pubs = << >>
            /\ chan["lidar"] = << >>

\* C3: the frames the consumer obtained followed by the frames still queued
\* are exactly the frames the handlers sent, in order; once the consumer has
\* obtained as many frames as whole messages were written, the channel is
\* empty.
C3_NoCoalescing ==
    \A s \in created :
        /\ decoded[s] = consumed[s] \o chan[s]
        /\ Len(consumed[s]) = sentWhole[s] => chan[s] = << >>

\* two different frames were queued together and obtained in order
C3_Witness ==
    \E s \in created :
        /\ Len(consumed[s]) = 2 /\ sentWhole[s] = 2 /\ chan[s] = << >>
        /\ consumed[s][1] # consumed[s][2]
        /\ decoded[s] = consumed[s]

C5_ErrorsIsolated ==
    \A f \in faults :
        f[1] \in {"bind", "stream", "decode", "tile"} =>
            /\ display # "panicked"
            /\ \A b \in created \ {f[2]} :
                  Terminated(b) => \E g \in faults : g[2] = b /\ g[1] # "channel"

\* the camera stream ended inside a length prefix or inside a payload
Truncated(c) ==
    /\ c.peer = "eof"
    /\ \/ c.st = "size" /\ 0 < Len(c.wire) /\ Len(c.wire) < 4
       \/ c.st = "payload" /\ Len(c.wire) < c.size

\* C6: when the camera stream is closed inside a length prefix or inside a
\* payload, the handler is not stuck, and its step ends the handler with the
\* error value UnexpectedEof (the framing error): no panic, no frame sent.
C6_TruncatedIsFramingError ==
    /\ [](\A i \in DOMAIN conns["camera"] :
            Truncated(conns["camera"][i]) =>
                ENABLED (handle_mjpeg_size(i) \/ handle_mjpeg_payload(i)))
    /\ [][\A i \in DOMAIN conns["camera"] :
            (Truncated(conns["camera"][i]) /\ conns'["camera"][i] # conns["camera"][i]) =>
                /\ conns'["camera"][i].st = "closed"
                /\ conns'["camera"][i].result = "UnexpectedEof"
                /\ listener'["camera"] = "returned_err"
                /\ chan' = chan /\ decoded' = decoded]_vars

\* a payload announced with 7 bytes was cut and the handler ended with the
\* error value after having published the whole frame before it
C6_Witness ==
    \E i \in DOMAIN conns["camera"] :
        LET c == conns["camera"][i]
        IN  c.cut /\ c.st = "closed" /\ c.result = "UnexpectedEof" /\ c.size = 7
            /\ Len(c.pubs) = 1 /\ Len(c.rx) > 11 + 4

\* C7: a payload that is not a valid image ends the handler with an error
\* value: no camera handler panics, and the listener thread does not unwind
\* because of a payload.
C7_CodecErrorValue ==
    /\ \A i \in DOMAIN conns["camera"] : conns["camera"][i].result # "panic"
    /\ << "decode", "camera" >> \notin faults

\* C8: a failed tile request does not crash the display loop.
C8_TileFailureRecoverable ==
    << "tile", "gps" >> \in faults => display # "panicked"

C10_OneHandlerPerSensor ==
    \A s \in created : Cardinality(Handlers(s)) <= 1

\* two connections are open, one of them is being decoded
C10_Witness ==
    \E s \in created :
        /\ Len(conns[s]) = 2
        /\ Cardinality(Handlers(s)) = 1
        /\ \A i \in DOMAIN conns[s] : conns[s][i].peer = "open" /\ conns[s][i].wire # << >>

\* C11: a sensor whose address cannot be bound, because it is in use or
\* invalid, is lost for good and alone: its listener thread has ended and is
\* not binding again, no connection of it was accepted and no frame of it
\* was published, and the display loop has not crashed because of it.
C11_BindFailureFatalForOneSensor ==
    \A f \in faults :
        f[1] \in {"bind", "address"} =>
            /\ listener[f[2]] \in {"panicked", "absent"}
            /\ conns[f[2]] = << >> /\ decoded[f[2]] = << >>
            /\ display = "panicked" => << "tile", "gps" >> \in faults

\* C12: when a push fails because the consumer end of the channel is gone,
\* the handler of that sensor, whichever sensor it is, has ended with the
\* error value of a disconnected channel and has not panicked: the listener
\* thread returned that error and did not unwind.
C12_DisconnectedErrorValue ==
    \A s \in created :
        << "channel", s >> \in faults =>
            /\ listener[s] = "returned_err"
            /\ \E i \in DOMAIN conns[s] : conns[s][i].result = "ConnectionAborted"
            /\ \A i \in DOMAIN conns[s] : conns[s][i].result # "panic"

\* the sequences of at most n elements of S
SeqsUpTo(S, n) == UNION {[1..k -> S] : k \in 0..n}

\* what a LIDAR client writes for the scans ss, one message after the other
RECURSIVE LidarStream(_)
LidarStream(ss) ==
    IF ss = << >> THEN << >> ELSE LidarMsg(Head(ss)) \o LidarStream(Tail(ss))

\* C13: when a LIDAR client has written the messages of the scans ss, the
\* scans its handler published are the first scans of ss, each with exactly
\* its K samples in wire order and every sample the pair that was written;
\* once the handler has read all the bytes, it has published every scan of
\* ss, so no byte was shared or skipped between two messages.
C13_LidarRoundTrip ==
    \A i \in DOMAIN conns["lidar"] : \A ss \in SeqsUpTo(LidarScans, MaxMsgs) :
        LET c == conns["lidar"][i]
        IN  c.rx = LidarStream(ss) =>
                /\ IsPrefix(c.pubs, [k \in 1..Len(ss) |-> [distances |-> ss[k]]])
                /\ (c.st = "count" /\ c.wire = << >>) => Len(c.pubs) = Len(ss)

\* a message with K = 0 and then the message with the two samples
\* (0.0, 10.0), (1.5708, 5.0) were written and both scans were published
C13_Witness ==
    \E i \in DOMAIN conns["lidar"] :
        LET c == conns["lidar"][i]
        IN  /\ Len(c.pubs) = 2 /\ c.st = "count" /\ c.wire = << >>
            /\ c.pubs[1].distances = << >>
            /\ c.pubs[2].distances = << <<0, 1092616192>>, <<1070141433, 1084227584>> >>
            /\ Len(c.rx) = 4 + 4 + 16

\* C14: when a LIDAR client has written one fixed-grammar scan, 360
\* big-endian floats, and the handler has read all of it that it can read,
\* the handler has published one scan of exactly 360 samples in index
\* order, sample k carrying the k-th distance with the angle k.
C14_FixedGrammarDecoded ==
    \A i \in DOMAIN conns["lidar"] :
        LET c == conns["lidar"][i]
        IN  (c.rx = FixedMsg /\ c.st \in HandlerPcs /\ ~CanRead(c, 4)) =>
                c.pubs = << [distances |->
                               [k \in 1..Len(FixedScan) |-> << k - 1, FixedScan[k] >>]] >>

\* what a GPS client writes for the fixes fs, one after the other
RECURSIVE GpsStream(_)
GpsStream(fs) ==
    IF fs = << >> THEN << >> ELSE GpsMsg(Head(fs)[1], Head(fs)[2]) \o GpsStream(Tail(fs))

\* C15: when what a GPS client has written is the beginning of the floats
\* of the fixes fs, the fixes its handler published are the first fixes of
\* fs, the n-th being (float 2n-1, float 2n) as latitude and longitude; the
\* n-th fix is only published when all eight bytes of its pair were written,
\* so a latitude whose longitude did not arrive yields no fix; once the
\* handler has read all the bytes of fs, it has published every fix of fs.
C15_GpsFixPerPair ==
    \A i \in DOMAIN conns["gps"] : \A fs \in SeqsUpTo(GpsFixes, MaxMsgs) :
        LET c == conns["gps"][i]
        IN  IsPrefix(c.rx, GpsStream(fs)) =>
                /\ IsPrefix(c.pubs, [k \in 1..Len(fs) |-> [lat |-> fs[k][1], lon |-> fs[k][2]]])
                /\ 8 * Len(c.pubs) <= Len(c.rx)
                /\ (c.rx = GpsStream(fs) /\ c.st = "lat" /\ c.wire = << >>)
                       => Len(c.pubs) = Len(fs)

\* after a whole fix the client wrote the latitude of another fix and only
\* half of its longitude: the handler read that latitude and ended having
\* published the first fix only
C15_Witness ==
    \E i \in DOMAIN conns["gps"] :
        LET c == conns["gps"][i]
        IN  /\ c.cut /\ c.st = "closed" /\ c.result = "UnexpectedEof"
            /\ Len(c.rx) = 8 + 6 /\ Len(c.pubs) = 1
            /\ c.lat # c.pubs[1].lat /\ c.pubs[1].lon # c.pubs[1].lat

\* C16: every camera frame that was published has three bytes per pixel:
\* width * height * 3 is the length of its image_bytes, whatever the colour
\* type of the payload it was decoded from.
C16_FrameIsRgb ==
    \A k \in DOMAIN decoded["camera"] :
        LET frame == decoded["camera"][k]
        IN  frame.width * frame.height * 3 = Len(frame.image_bytes)

\* the step consumes the first fix of the session and the display loop
\* survives it
FirstFixConsumed ==
    consumed["gps"] = << >> /\ consumed'["gps"] # << >> /\ display' = "running"

\* C17: the step that consumes the first fix leaves the GPS window at zoom
\* 16, has last requested the nine tiles of the rows y_tile - 1 .. y_tile + 1
\* and columns x_tile - 1 .. x_tile + 1 at zoom 16, where (x_tile, y_tile) is
\* the tile that contains the fix, has set the queried position to the fix
\* and the northwestern corner to the corner of tile (x_tile - 1, y_tile - 1),
\* and has recorded as first point of the track the pixel of the fix under
\* this new projection.
C17_FirstFixProjects ==
    [][FirstFixConsumed =>
         LET fix == consumed'["gps"][1]
             w == gpsWin'
             tile_deg == 360 * (DegUnit \div (2 ^ 16))
             west == (w.x_tile * tile_deg) - 180 * DegUnit
             fetched == SubSeq(tile_requests', Len(tile_requests') - 8, Len(tile_requests'))
         IN  /\ w.zoom = 16 /\ ~w.image_empty
             /\ Len(tile_requests') >= Len(tile_requests) + 9
             /\ Range(fetched) = {<< 16, w.x_tile + dx, w.y_tile + dy >> : dx, dy \in -1..1}
             /\ west <= F32Deg(fix.lon) /\ F32Deg(fix.lon) < west + tile_deg
             /\ TileLat(16, w.y_tile) >= F32Deg(fix.lat)
             /\ F32Deg(fix.lat) > TileLat(16, w.y_tile + 1)
             /\ w.query_lat = fix.lat /\ w.query_lon = fix.lon
             /\ w.nw_lon = west - tile_deg
             /\ w.nw_lat = TileLat(16, w.y_tile - 1)
             /\ w.points = << coords_to_pixel(w, fix) >>]_vars

\* the first fix was consumed after a tick without a fix: ten tiles were
\* requested in all, the last nine at zoom 16, and the point of the fix lies
\* in the middle tile of the composite
C17_Witness ==
    /\ display = "running"
    /\ Len(consumed["gps"]) = 1 /\ gpsWin.zoom = 16
    /\ Len(tile_requests) = 10 /\ tile_requests[2][1] = 16
    /\ Len(gpsWin.points) = 1
    /\ \A d \in 1..2 : TileSize <= gpsWin.points[1][d] /\ gpsWin.points[1][d] < 2 * TileSize

\* C18: as long as no fix was consumed from the channel, no tile was
\* requested from the tile service and the GPS window has no raster.
C18_NoTileBeforeFirstFix ==
    consumed["gps"] = << >> => (tile_requests = << >> /\ gpsWin.image_empty)

\* C19: the track grows only at its end and by at most one entry per step;
\* while the display loop lives, the track has one entry per consumed fix,
\* and its k-th entry is the pixel of the k-th consumed fix.
C19_TrackAppendOnly ==
    /\ [](display # "panicked" =>
            /\ Len(gpsWin.points) = Len(consumed["gps"])
            /\ \A k \in DOMAIN gpsWin.points :
                  gpsWin.points[k] = coords_to_pixel(gpsWin, consumed["gps"][k]))
    /\ [][/\ IsPrefix(gpsWin.points, gpsWin'.points)
          /\ Len(gpsWin'.points) <= Len(gpsWin.points) + 1]_vars

\* the same fix was consumed twice and the track has two equal entries
C19_Witness ==
    /\ display = "running"
    /\ Len(consumed["gps"]) = 2 /\ consumed["gps"][1] = consumed["gps"][2]
    /\ Len(gpsWin.points) = 2 /\ gpsWin.points[1] = gpsWin.points[2]

\* C20: no point of the track lies outside the composite the window shows:
\* a fix whose pixel falls outside [0, width) x [0, height) is not recorded
\* against the old composite.
C20_NoPointOutsideComposite ==
    \A k \in DOMAIN gpsWin.points :
        /\ 0 <= gpsWin.points[k][1] /\ gpsWin.points[k][1] < gpsWin.width
        /\ 0 <= gpsWin.points[k][2] /\ gpsWin.points[k][2] < gpsWin.height

\* the columns and rows at which the raster is examined: the first and last
\* pixel of every tile of the composite, and the second pixel
PixelSamples == {0, 1, 255, 256, 511, 512, 767}

\* C21: once the tiles of the first fix were fetched, the raster is three
\* tiles wide and three tiles tall, has width * height * 3 bytes, and the
\* byte of channel ch of the pixel at (col, row) is that byte of the pixel
\* (col mod 256, row mod 256) of the tile (x_tile - 1 + col div 256,
\* y_tile - 1 + row div 256).
C21_CompositeRowMajor ==
    (gpsWin.zoom > 0 /\ display # "panicked") =>
        /\ gpsWin.width = 3 * TileSize /\ gpsWin.height = 3 * TileSize
        /\ image_bytes_len(gpsWin) = gpsWin.width * gpsWin.height * 3
        /\ \A col, row \in PixelSamples : \A ch \in 0..2 :
              image_bytes(gpsWin, (((row * gpsWin.width) + col) * 3) + ch) =
                 << gpsWin.zoom,
                    (gpsWin.x_tile - 1) + (col \div TileSize),
                    (gpsWin.y_tile - 1) + (row \div TileSize),
                    ((((row % TileSize) * TileSize) + (col % TileSize)) * 3) + ch >>

\* the composite of the fix (47.0, 8.0) is shown: the pixel (256, 256) of the
\* raster is the first pixel of the tile 16/34224/23050, which contains the fix
C21_Witness ==
    /\ display = "running" /\ gpsWin.zoom = 16 /\ gpsWin.width = 768
    /\ image_bytes(gpsWin, ((256 * 768) + 256) * 3) = << 16, 34224, 23050, 0 >>


\* C22: a fix whose latitude and longitude are those of the northwestern
\* corner of the composite is recorded as the pixel (0, 0).
C22_CornerIsOrigin ==
    display # "panicked" =>
        \A k \in DOMAIN gpsWin.points :
            LET fix == consumed["gps"][k]
            IN  (F32Deg(fix.lat) = gpsWin.nw_lat /\ F32Deg(fix.lon) = gpsWin.nw_lon)
                    => gpsWin.points[k] = << 0, 0 >>

\* after (47.0, 8.0), recorded at pixel (347, 442), the fix at the corner of
\* its composite was consumed and recorded at (0, 0)
C22_Witness ==
    /\ display = "running" /\ Len(gpsWin.points) = 2
    /\ consumed["gps"][1] = [lat |-> 1111228416, lon |-> 1090519040]
    /\ consumed["gps"][2] = [lat |-> F32OfDeg(gpsWin.nw_lat), lon |-> F32OfDeg(gpsWin.nw_lon)]
    /\ gpsWin.points = << << 347, 442 >>, << 0, 0 >> >>

\* the northwestern reference tile of the window w
nw_tile(w) == IF w.zoom > 0 THEN << w.x_tile - 1, w.y_tile - 1 >> ELSE << w.x_tile, w.y_tile >>

\* C23: the northwestern corner that query_osm computed from the index of
\* the northwestern tile lies in that tile: converted forward with the tile
\* formula of query_osm, at the same zoom, it yields the same tile index.
C23_TileRoundTrip ==
    (display # "panicked" /\ ~gpsWin.image_empty) =>
        tile_of(gpsWin.zoom, F32OfDeg(gpsWin.nw_lat), F32OfDeg(gpsWin.nw_lon)) = nw_tile(gpsWin)

\* a step of the thread of Gps::start: bind, accept, or a read of handle_gps
GpsThreadStep ==
    \/ start_bind("gps")
    \/ start_accept("gps")
    \/ \E i \in DOMAIN conns["gps"] : handle_gps_lat(i) \/ handle_gps_lon(i)

\* a tick of the GPS window, on the thread of the display loop
GpsRenderStep == \E tiles1, tiles2 \in BOOLEAN : render_gps(tiles1, tiles2)

\* C24: every step that changes the GPS window (its track or its projection
\* parameters) or requests a tile is a tick of the GPS window on the display
\* thread; such a tick leaves the listener thread and its connections alone,
\* and a step of the listener thread leaves the window, the consumer's
\* position and the display loop alone: the channel is the only variable
\* both threads write.
C24_SingleOwner ==
    [][/\ (gpsWin' # gpsWin \/ tile_requests' # tile_requests) => GpsRenderStep
       /\ GpsRenderStep => UNCHANGED << listener, conns, decoded >>
       /\ GpsThreadStep => UNCHANGED << gpsWin, tile_requests, consumed, display,
                                        camWin, lidWin >>]_vars

\* the window has recorded one fix while the handler, still running, has
\* sent a second one that waits in the channel
C24_Witness ==
    /\ Len(gpsWin.points) = 1 /\ Len(chan["gps"]) = 1 /\ display = "running"
    /\ \E i \in DOMAIN conns["gps"] :
          conns["gps"][i].st \in HandlerPcs /\ Len(conns["gps"][i].pubs) = 2

\* C25: before a connect has succeeded no event was polled and no byte was
\* written; a connect attempt that fails is followed by a sleep, a sleep
\* ends after SleepSecs seconds and only into the next attempt, however many
\* attempts came before; every sleep is followed by an attempt; and when the
\* peer accepts from some time on, the controller eventually holds a
\* connected stream and polls the gamepad.
C25_ConnectRetry ==
    /\ [](controller.pc \in {"new", "connect", "sleep"} =>
            gilrs.polled = << >> /\ remote.out = << >>)
    /\ [][(controller.pc = "connect" /\ controller'.pc # "connect") =>
            IF remote.state = "accepting" THEN controller'.pc = "next_event"
            ELSE controller'.pc = "sleep" /\ controller'.slept = 0]_vars
    /\ [][(controller.pc = "sleep" /\ controller'.pc # "sleep") =>
            controller'.pc = "connect" /\ controller'.slept = SleepSecs]_vars
    /\ (controller.pc = "sleep") ~> (controller.pc = "connect")
    /\ <>[](remote.state # "refusing") => <>Sending

\* C26: once a write on the connected stream has failed, the controller
\* thread has returned the error; from then on it connects no more, polls no
\* event and writes no byte.
C26_WriteFailureFatal ==
    /\ [](remote.failed => controller.pc = "returned_err" /\ controller.result = "Err")
    /\ [][remote.failed =>
            /\ controller' = controller
            /\ gilrs' = gilrs
            /\ remote'.out = remote.out /\ remote'.flushes = remote.flushes]_vars
    /\ [](controller.pc = "returned_err" => ~ ENABLED ControllerStep)

\* the first event was sent whole; the payload of the second broke off after
\* half of its bytes and the thread returned the error
C26_Witness ==
    /\ remote.failed /\ controller.pc = "returned_err" /\ remote.state = "lost"
    /\ Len(remote.flushes) = 1 /\ Len(gilrs.polled) = 2
    /\ Len(remote.out) = remote.flushes[1] + 4 + (Len(controller.data) \div 2)

\* what the controller writes for the events evs, one message after the other
RECURSIVE EventStream(_)
EventStream(evs) ==
    IF evs = << >> THEN << >>
    ELSE LE4(Len(to_vec(Head(evs)))) \o to_vec(Head(evs)) \o EventStream(Tail(evs))

\* C27: the bytes written are the beginning of the messages of the polled
\* events in polling order, each a 4-byte little-endian length of its
\* payload followed by the payload; the i-th flush comes when exactly the
\* first i messages were written, and an event is only polled when the
\* messages of all events before it were written and flushed.
C27_OneMessagePerEvent ==
    /\ [](/\ IsPrefix(remote.out, EventStream(gilrs.polled))
          /\ \A i \in DOMAIN remote.flushes :
                remote.flushes[i] = Len(EventStream(SubSeq(gilrs.polled, 1, i)))
          /\ Len(gilrs.polled) - 1 <= Len(remote.flushes)
          /\ Len(remote.flushes) <= Len(gilrs.polled)
          /\ controller.pc = "next_event" =>
                /\ remote.out = EventStream(gilrs.polled)
                /\ Len(remote.flushes) = Len(gilrs.polled))
    /\ [][gilrs'.polled # gilrs.polled =>
            /\ remote.out = EventStream(gilrs.polled)
            /\ Len(remote.flushes) = Len(gilrs.polled)]_vars

\* Disconnected and then Connected were polled and sent: 4 + 13 bytes, a
\* flush, 4 + 10 bytes, a flush
C27_Witness ==
    /\ gilrs.polled = << "Disconnected", "Connected" >>
    /\ remote.flushes = << 17, 31 >> /\ Len(remote.out) = 31
    /\ SubSeq(remote.out, 1, 5) = << 13, 0, 0, 0, 108 >>
    /\ SubSeq(remote.out, 18, 22) = << 10, 0, 0, 0, 105 >>

\* the projection state of the window w
Projection(w) ==
    << w.zoom, w.x_tile, w.y_tile, w.nw_lat, w.nw_lon, w.lat_meters, w.lon_meters,
       w.query_lat, w.query_lon, w.width, w.height >>

\* C28: the zoom is 0 or 16, and 16 once a fix was consumed; a step taken
\* after the first fix was consumed leaves the projection state as it is and
\* requests no tile: it can only append to the track.
C28_ProjectionFrozen ==
    /\ [](gpsWin.zoom \in {0, 16} /\ (consumed["gps"] # << >> => gpsWin.zoom = 16))
    /\ [][consumed["gps"] # << >> =>
            /\ Projection(gpsWin') = Projection(gpsWin)
            /\ tile_requests' = tile_requests
            /\ IsPrefix(gpsWin.points, gpsWin'.points)]_vars

\* a second fix, in another tile than the first, was consumed and recorded
\* under the projection of the first
C28_Witness ==
    /\ display = "running" /\ Len(consumed["gps"]) = 2 /\ Len(gpsWin.points) = 2
    /\ gpsWin.query_lat = consumed["gps"][1].lat
    /\ gpsWin.query_lon = consumed["gps"][1].lon
    /\ tile_of(16, consumed["gps"][2].lat, consumed["gps"][2].lon)
          # << gpsWin.x_tile, gpsWin.y_tile >>
    /\ Len(tile_requests) = 10

\* C29: every tile requested at a zoom above 0 has both indices in
\* 0 .. 2^zoom - 1, as has the northwestern reference tile of a composite,
\* and no subtraction of a tile index has overflowed.
C29_TileIndicesInRange ==
    /\ \A k \in DOMAIN tile_requests :
          tile_requests[k][1] > 0 => TileExists(tile_requests[k])
    /\ (gpsWin.zoom > 0 /\ display # "panicked") =>
          TileExists(<< gpsWin.zoom, nw_tile(gpsWin)[1], nw_tile(gpsWin)[2] >>)
    /\ << "overflow", "gps" >> \notin faults

\* the fixes a and b lie opposite to each other, at equal distances, on the
\* two sides of the northwestern corner of the window w
Mirrored(w, a, b) ==
    /\ F32Deg(a.lat) + F32Deg(b.lat) = 2 * w.nw_lat
    /\ F32Deg(a.lon) + F32Deg(b.lon) = 2 * w.nw_lon

\* C30: no fix is converted to a negative pixel coordinate, neither the
\* fixes of the track nor any fix of the menu under the projection of the
\* first fix; two fixes of the track that are mirror images of each other in the
\* northwestern corner have the same pixel.
C30_AbsoluteOffsets ==
    display # "panicked" =>
        /\ \A k \in DOMAIN gpsWin.points :
              gpsWin.points[k][1] >= 0 /\ gpsWin.points[k][2] >= 0
        /\ gpsWin.zoom > 0 =>
              \A fix \in TrackFixes :
                 LET pixel == coords_to_pixel(gpsWin, [lat |-> fix[1], lon |-> fix[2]])
                 IN  pixel[1] >= 0 /\ pixel[2] >= 0
        /\ \A j, k \in DOMAIN gpsWin.points :
              Mirrored(gpsWin, consumed["gps"][j], consumed["gps"][k])
                  => gpsWin.points[j] = gpsWin.points[k]

\* (47.0, 8.0), inside the composite, and its mirror image, northwest of the
\* corner, were consumed and are both recorded at the pixel (347, 442)
C30_Witness ==
    /\ display = "running" /\ Len(gpsWin.points) = 2
    /\ consumed["gps"][1] # consumed["gps"][2]
    /\ Mirrored(gpsWin, consumed["gps"][1], consumed["gps"][2])
    /\ F32Deg(consumed["gps"][2].lat) > gpsWin.nw_lat
    /\ F32Deg(consumed["gps"][2].lon) < gpsWin.nw_lon
    /\ gpsWin.points = << << 347, 442 >>, << 347, 442 >> >>

(***************************************************************************)
(* Draining a channel: one sensor window of any kind, whose client writes   *)
(* whole messages on one connection, and a display loop that keeps ticking. *)
(***************************************************************************)
InitDrain == \E s \in Sensors : InitWith({s}, MaxMsgs)

NextDrain ==
    \/ \E s \in created : start_bind(s)
    \/ \E s \in created : start_accept(s)
    \/ \E s \in created : conns[s] = << >> /\ Connect(s)
    \/ \E s \in created : \E i \in DOMAIN conns[s] : \E m \in Messages(s) :
          ClientSend(s, i, m, Len(m))
    \/ \E s \in created : \E i \in DOMAIN conns[s] : ClientClose(s, i)
    \/ \E i \in DOMAIN conns["camera"] : handle_mjpeg_size(i)
    \/ \E i \in DOMAIN conns["camera"] : handle_mjpeg_payload(i)
    \/ \E i \in DOMAIN conns["lidar"] : handle_lidar_count(i)
    \/ \E i \in DOMAIN conns["lidar"] : handle_lidar_angle(i)
    \/ \E i \in DOMAIN conns["lidar"] : handle_lidar_distance(i)
    \/ \E i \in DOMAIN conns["gps"] : handle_gps_lat(i)
    \/ \E i \in DOMAIN conns["gps"] : handle_gps_lon(i)
    \/ render_camera
    \/ render_lidar
    \/ \E tiles1, tiles2 \in BOOLEAN : render_gps(tiles1, tiles2)
    \/ CloseRequested

SpecDrain == InitDrain /\ [][NextDrain]_vars

\* a tick of the window of sensor s
RenderTick(s) ==
    CASE s = "camera" -> render_camera
      [] s = "lidar" -> render_lidar
      [] s = "gps" -> GpsRenderStep

\* The display loop renders every sensor window once per iteration for as
\* long as it runs: a tick that would take a frame is not postponed forever.
SpecDrainFair ==
    /\ SpecDrain
    /\ WF_vars(render_camera)
    /\ WF_vars(render_lidar)
    /\ WF_vars(GpsRenderStep)

\* the window of sensor s displays the frame f
Displays(s, f) ==
    CASE s = "camera" -> /\ camWin.texture_id
                         /\ camWin.window_width = f.width
                         /\ camWin.window_height = f.height
      [] s = "lidar" -> lidWin.texture_id /\ lidWin.lidar_data = f.distances
      [] s = "gps" -> /\ gpsWin.texture_id
                      /\ Len(gpsWin.points) = Len(consumed["gps"])

\* C31: while the display loop runs, the k-th frame sent on the channel of a
\* sensor is eventually obtained by the window of that sensor; a tick that
\* finds frames queued and leaves the display loop running takes exactly
\* one, the oldest, and the window then displays it, so a backlog of n
\* frames is drained by n such ticks and by no fewer; what a window displays
\* is the frame it obtained last, so a frame is displayed only after every
\* frame sent before it was displayed.
C31_BacklogDrains ==
    /\ \A s \in Sensors : \A k \in 1..MaxMsgs :
          (Len(decoded[s]) >= k) ~> (Len(consumed[s]) >= k \/ display # "running")
    /\ [][\A s \in created :
            /\ (RenderTick(s) /\ chan[s] # << >> /\ display' = "running") =>
                   /\ consumed'[s] = Append(consumed[s], Head(chan[s]))
                   /\ Len(chan'[s]) = Len(chan[s]) - 1
            /\ consumed'[s] # consumed[s] =>
                   /\ RenderTick(s)
                   /\ Len(consumed'[s]) = Len(consumed[s]) + 1]_vars
    /\ [](\A s \in created :
            (consumed[s] # << >> /\ display # "panicked") =>
                /\ Displays(s, consumed[s][Len(consumed[s])])
                /\ \E n \in 0..Len(decoded[s]) : consumed[s] = SubSeq(decoded[s], 1, n))

\* the client of the LIDAR wrote two different scans and stopped; both were
\* queued, two ticks took them in the order sent, the channel is empty and
\* the window displays the second scan
C31_Witness ==
    /\ display = "running" /\ quota["lidar"] = 0
    /\ Len(decoded["lidar"]) = 2 /\ decoded["lidar"][1] # decoded["lidar"][2]
    /\ consumed["lidar"] = decoded["lidar"] /\ chan["lidar"] = << >>
    /\ lidWin.lidar_data = decoded["lidar"][2].distances

(***************************************************************************)
(* One camera window, MJPEG or H264.                                        *)
(***************************************************************************)
InitCamera == InitWith({"camera"}, MaxMsgs)

NextCamera ==
    \/ start_bind("camera")
    \/ start_accept("camera")
    \/ Connect("camera")
    \/ \E i \in DOMAIN conns["camera"] : \E m \in Messages("camera") :
          \E n \in Cuts(m) \cup {Len(m)} : ClientSend("camera", i, m, n)
    \/ \E i \in DOMAIN conns["camera"] : ClientClose("camera", i)
    \/ \E i \in DOMAIN conns["camera"] : handle_mjpeg_size(i)
    \/ \E i \in DOMAIN conns["camera"] : handle_mjpeg_payload(i)
    \/ render_camera
    \/ CloseRequested

SpecCamera == InitCamera /\ [][NextCamera]_vars

\* C32: with the H264 format no handler of the camera is ever at a read and
\* no read can be taken; every connection is either waiting to be accepted
\* or was dropped with the handler's result Ok, in order of arrival, and has
\* published nothing; nothing was sent on the channel, nothing was obtained
\* or displayed by the window; the thread of start() is never inside a
\* handler and has not returned, so that once the listener is bound every
\* waiting connection can be accepted.
C32_H264ReturnsAtOnce ==
    (video_format = "H264" /\ "camera" \in created) =>
        /\ \A i \in DOMAIN conns["camera"] :
              LET c == conns["camera"][i]
              IN  /\ c.st \in {"pending", "closed"}
                  /\ c.pubs = << >>
                  /\ c.st = "closed" => c.result = "Ok"
                  /\ \A j \in 1..(i - 1) :
                        c.st = "closed" => conns["camera"][j].st = "closed"
                  /\ ~ ENABLED handle_mjpeg_size(i)
                  /\ ~ ENABLED handle_mjpeg_payload(i)
        /\ decoded["camera"] = << >> /\ chan["camera"] = << >>
        /\ consumed["camera"] = << >> /\ ~ camWin.texture_id
        /\ listener["camera"] \in {"bind", "panicked", "accepting"}
        /\ (listener["camera"] = "accepting" /\ Pending("camera") # {})
               => ENABLED start_accept("camera")

\* with the H264 format two clients connected and the first wrote a whole
\* frame; both connections were accepted and dropped with Ok, the frame was
\* not published, and the listener is accepting again
C32_Witness ==
    /\ video_format = "H264" /\ listener["camera"] = "accepting"
    /\ Len(conns["camera"]) = 2
    /\ \A i \in 1..2 : conns["camera"][i].st = "closed" /\ conns["camera"][i].result = "Ok"
    /\ conns["camera"][1].rx \in Messages("camera")
    /\ decoded["camera"] = << >>

(***************************************************************************)
(* main.rs: the camera viewer with one mutex-protected slot.  main() spawns *)
(* the thread of render() and then listens and decodes on its own thread;  *)
(* the process ends when main() returns or panics.                         *)
(***************************************************************************)
app_vars == << created, video_format, listener, conns, chan, display, camWin, lidWin,
               gpsWin, tile_requests, quota, decoded, consumed, sentWhole, faults,
               ctrl_vars >>

ProcessRuns == main_thread.pc \notin {"absent", "returned", "panicked"}

\* a client connects to 0.0.0.0:8001
slot_connect ==
    /\ main_thread.pc = "accept"
    /\ main_thread.peer = "none"
    /\ main_thread' = [main_thread EXCEPT !.peer = "open"]
    /\ UNCHANGED << app_vars, sensor_data, render_thread, slot_log >>

\* the client writes the first n bytes of message m and dies if n < Len(m)
slot_client_send(m, n) ==
    /\ ProcessRuns
    /\ main_thread.peer = "open"
    /\ main_thread.quota > 0
    /\ main_thread' = [main_thread EXCEPT !.wire = @ \o SubSeq(m, 1, n),
                                          !.peer = IF n < Len(m) THEN "eof" ELSE "open",
                                          !.quota = @ - 1]
    /\ UNCHANGED << app_vars, sensor_data, render_thread, slot_log >>

\* the client closes its end
slot_client_close ==
    /\ ProcessRuns
    /\ main_thread.peer = "open"
    /\ main_thread' = [main_thread EXCEPT !.peer = "eof"]
    /\ UNCHANGED << app_vars, sensor_data, render_thread, slot_log >>

\* let listener = TcpListener::bind("0.0.0.0:8001")?;
main_bind ==
    /\ main_thread.pc = "bind"
    /\ \E ok \in BOOLEAN :
          main_thread' = IF ok THEN [main_thread EXCEPT !.pc = "accept"]
                         ELSE [main_thread EXCEPT !.pc = "returned", !.result = "AddrInUse"]
    /\ UNCHANGED << app_vars, sensor_data, render_thread, slot_log >>

\* for stream in listener.incoming() { handle_image_stream(stream?, ..)?; }
main_accept ==
    /\ main_thread.pc = "accept"
    /\ main_thread.peer # "none"
    /\ main_thread' = [main_thread EXCEPT !.pc = "size"]
    /\ UNCHANGED << app_vars, sensor_data, render_thread, slot_log >>

\* let size = stream.read_u32::<LittleEndian>()? as usize;
main_read_size ==
    /\ main_thread.pc = "size"
    /\ \/ /\ CanRead(main_thread, 4)
          /\ main_thread' = [main_thread EXCEPT !.size = U32LE(Take(main_thread, 4)),
                                                !.wire = Drop(main_thread, 4),
                                                !.pc = "payload"]
       \/ \E e \in ReadErr(main_thread, 4) :
             main_thread' = [main_thread EXCEPT !.pc = "returned", !.result = e]
    /\ UNCHANGED << app_vars, sensor_data, render_thread, slot_log >>

\* stream.read_exact(&mut bytes[..])?; JPEGDecoder::new(bytes).expect(..);
\* decoder.read_image().expect(..); let raw = RawImage2d { .. };
main_read_decode ==
    LET bytes == Take(main_thread, main_thread.size)
    IN  /\ main_thread.pc = "payload"
        /\ \/ /\ CanRead(main_thread, main_thread.size)
              /\ main_thread' =
                    IF JPEGDecoderNew(bytes) /\ ReadImageOk(bytes)
                    THEN [main_thread EXCEPT
                             !.wire = Drop(main_thread, main_thread.size),
                             !.raw = [data |-> ReadImage(bytes),
                                      width |-> Dimensions(bytes)[1],
                                      height |-> Dimensions(bytes)[2]],
                             !.pc = "lock"]
                    ELSE [main_thread EXCEPT !.pc = "panicked", !.result = "panic"]
           \/ \E e \in ReadErr(main_thread, main_thread.size) :
                 main_thread' = [main_thread EXCEPT !.pc = "returned", !.result = e]
        /\ UNCHANGED << app_vars, sensor_data, render_thread, slot_log >>

\* let mut sensor_data = sensor_data.lock().unwrap(): waits while the other
\* thread holds the guard
main_lock ==
    /\ main_thread.pc = "lock"
    /\ sensor_data.guard = "none"
    /\ sensor_data' = [sensor_data EXCEPT !.guard = "main"]
    /\ main_thread' = [main_thread EXCEPT !.pc = "store"]
    /\ UNCHANGED << app_vars, render_thread, slot_log >>

\* sensor_data.camera = Some(raw); the guard, a local of the loop body, is
\* dropped at the end of the iteration
main_store ==
    /\ main_thread.pc = "store"
    /\ sensor_data' = [camera |-> main_thread.raw, guard |-> "none"]
    /\ main_thread' = [main_thread EXCEPT !.pc = "size", !.raw = None]
    /\ slot_log' = [slot_log EXCEPT
                       !.stored = Append(@, main_thread.raw),
                       !.slot = Len(slot_log.stored) + 1,
                       !.overwritten = IF slot_log.slot # 0 THEN @ \cup {slot_log.slot}
                                       ELSE @]
    /\ UNCHANGED << app_vars, render_thread >>

\* let mut sensor_data = sensor_data.lock().unwrap();
render_lock ==
    /\ ProcessRuns
    /\ render_thread.pc = "lock"
    /\ sensor_data.guard = "none"
    /\ sensor_data' = [sensor_data EXCEPT !.guard = "render"]
    /\ render_thread' = [render_thread EXCEPT !.pc = "take"]
    /\ UNCHANGED << app_vars, main_thread, slot_log >>

\* (bug variant: the frame is copied and stays in the slot)
take_peek(option) == option

\* Option::take: what it leaves in the option
take(option) == None

\* camera = sensor_data.camera.take(); the guard is dropped at the end of
\* the block
render_take ==
    /\ ProcessRuns
    /\ render_thread.pc = "take"
    /\ render_thread' = [render_thread EXCEPT !.camera = sensor_data.camera,
                                              !.pc = "texture"]
    /\ sensor_data' = [camera |-> take(sensor_data.camera), guard |-> "none"]
    /\ slot_log' = IF sensor_data.camera = None THEN [slot_log EXCEPT !.local = 0]
                   ELSE [slot_log EXCEPT
                            !.taken = Append(@, slot_log.slot),
                            !.local = slot_log.slot,
                            !.slot = IF take(sensor_data.camera) = None THEN 0 ELSE @]
    /\ UNCHANGED << app_vars, main_thread >>

\* Texture2d::new accepts the U8U8U8 image cam
TextureFits(cam) == Len(cam.data) = cam.width * cam.height * 3

\* if let Some(cam) = camera { Texture2d::new(..).expect(..); replace or
\* insert the texture }, then the frame is drawn and the loop starts again.
\* An image whose data is not width * height * 3 bytes long is refused by
\* Texture2d::new with a panic or uploaded as it is.
render_texture ==
    /\ ProcessRuns
    /\ render_thread.pc = "texture"
    /\ LET cam == render_thread.camera
       IN  IF cam = None
           THEN /\ render_thread' = [render_thread EXCEPT !.pc = "lock"]
                /\ UNCHANGED slot_log
           ELSE \E ok \in (IF TextureFits(cam) THEN {TRUE} ELSE BOOLEAN) :
                   IF ok
                   THEN /\ render_thread' = [render_thread EXCEPT
                                                !.pc = "lock", !.camera = None,
                                                !.cam_tex_id = TRUE, !.texture = cam]
                        /\ slot_log' = [slot_log EXCEPT !.shown = Append(@, slot_log.local),
                                                        !.local = 0]
                   ELSE /\ render_thread' = [render_thread EXCEPT !.pc = "panicked"]
                        /\ UNCHANGED slot_log
    /\ UNCHANGED << app_vars, sensor_data, main_thread >>

InitSlot ==
    /\ InitSensors({}, 0)
    /\ InitController(FALSE)
    /\ InitSingleSlot(TRUE)

NextSlot ==
    \/ slot_connect
    \/ \E m \in Messages("camera") : \E n \in Cuts(m) \cup {Len(m)} : slot_client_send(m, n)
    \/ slot_client_close
    \/ main_bind
    \/ main_accept
    \/ main_read_size
    \/ main_read_decode
    \/ main_lock
    \/ main_store
    \/ render_lock
    \/ render_take
    \/ render_texture

SpecSlot == InitSlot /\ [][NextSlot]_vars

\* C33: in the single-slot program, under every interleaving of the two
\* threads, the frames the render thread took have increasing numbers, so
\* no stored frame is taken twice, and a take leaves the slot empty; a
\* frame in the slot is the one stored last, a store into an occupied slot
\* replaces the older frame, and an older frame that was replaced is never
\* taken or shown: every stored frame is either taken, or replaced, or
\* still in the slot; the guard of the mutex is held by the thread of
\* main() only between its lock and its store and by the thread of render()
\* only between its lock and its take, never during a socket read, an image
\* decode or the creation of a texture.
C33_SingleSlot ==
    /\ [](LET stored == 1..Len(slot_log.stored)
              taken == Range(slot_log.taken)
          IN  /\ \A i, j \in DOMAIN slot_log.taken :
                    i < j => slot_log.taken[i] < slot_log.taken[j]
              /\ (sensor_data.camera = None) <=> (slot_log.slot = 0)
              /\ sensor_data.camera # None =>
                    /\ slot_log.slot = Len(slot_log.stored)
                    /\ sensor_data.camera = slot_log.stored[slot_log.slot]
              /\ taken \cup slot_log.overwritten \cup ({slot_log.slot} \ {0}) = stored
              /\ taken \cap slot_log.overwritten = {}
              /\ slot_log.slot \notin taken \cup slot_log.overwritten
              /\ Range(slot_log.shown) \subseteq taken
              /\ (sensor_data.guard = "main") <=> (main_thread.pc = "store")
              /\ (sensor_data.guard = "render") <=> (render_thread.pc = "take"))
    /\ [][/\ render_take => sensor_data'.camera = None
          /\ (main_store /\ sensor_data.camera # None) =>
                 /\ sensor_data'.camera = main_thread.raw
                 /\ slot_log.slot \in slot_log'.overwritten
          /\ (main_accept \/ main_read_size \/ main_read_decode) =>
                 sensor_data.guard # "main" /\ sensor_data'.guard # "main"
          /\ render_texture =>
                 sensor_data.guard # "render" /\ sensor_data'.guard # "render"]_vars

\* two frames were decoded and stored before the render thread took any:
\* the second replaced the first, the render thread then took and showed
\* the second, and the slot is empty
C33_Witness ==
    /\ Len(slot_log.stored) = 2 /\ slot_log.overwritten = {1}
    /\ slot_log.taken = << 2 >> /\ slot_log.shown = << 2 >>
    /\ sensor_data.camera = None /\ sensor_data.guard = "none"
    /\ render_thread.texture = slot_log.stored[2]

=============================================================================
